---- MODULE Spec2Model ----
(***************************************************************************)
(* Model of the engineering_team package: the module-creation state        *)
(* (models.py), the architecture planner's cleaning step                   *)
(* (architecture_planner.py), the module creator with its retry loop,      *)
(* interface extractor and contract validator (module_creator.py) and the  *)
(* flow coordinator (flow.py).                                             *)
(*                                                                         *)
(* Identifiers (module names, class names, method names) are sequences of  *)
(* one-character strings, so that substring tests, lower-casing, prefix    *)
(* tests and split("(") are computed as the code computes them.            *)
(* Generated source text is modelled by its syntax tree.                   *)
(***************************************************************************)
EXTENDS Integers, Sequences, FiniteSets, TLC

VARIABLES
    pc,                 \* position of the driver: see the actions
    planner_result,     \* the architecture the planning backend returned
    removed_modules,    \* history: the names _validate_and_clean_architecture removed
    error,              \* the exception that ended the run, None if none was raised
    architecture,       \* the SystemArchitecture handed to create_modules
    module_state,       \* the ModuleCreationState
    module_interfaces,  \* ModuleCreator.module_interfaces: name -> extracted interface
    files,              \* output directory: name -> text
    created_modules,    \* create_modules' local dict: name -> module_result
    next_module,        \* create_modules' local
    attempt,            \* _create_single_module_with_retry's loop variable
    module_result,      \* _create_single_module_with_retry's local
    previous_result,    \* _create_single_module_with_retry's local
    validation_issues,  \* _create_single_module_with_retry's local
    attempt_log,        \* history: texts the backend returned for the module in hand
    iterations,         \* history: number of times the body of the while loop was entered
    generation_order,   \* history: the modules handed to _create_single_module_with_retry
    outcome,            \* how create_modules ended: "none", "returned", "raised"
    integration_result, \* _create_system_integration_with_retry's local
    assembly_result,    \* what SystemAssembler.assemble_system returned
    assembly_log,       \* history: the generation calls of the assembly, in order
    returned            \* what the last call of a query returned (specifications of calls)

vars == <<pc, planner_result, removed_modules, error, architecture, module_state,
          module_interfaces,
          files, created_modules, next_module, attempt, module_result,
          previous_result, validation_issues, attempt_log, iterations,
          generation_order, outcome, integration_result, assembly_result,
          assembly_log, returned>>

-----------------------------------------------------------------------------
(* Bounds *)

MaxModules == 2

\* Python's None, and a local that is not bound yet
None == [none |-> TRUE]
Unbound == [unbound |-> TRUE]
\* the same for a local that holds a number, and for one that holds a list of issues
UnboundNumber == 0 - 1
UnboundIssues == << <<"unbound">> >>
\* and for one that holds a text
UnboundText == <<"unbound">>

-----------------------------------------------------------------------------
(* Sequences and strings *)

Range(s) == {s[i] : i \in 1..Len(s)}

\* list.remove(x): removes the first occurrence (callers test membership first)
RECURSIVE Remove(_, _)
Remove(s, x) ==
    IF s = <<>> THEN <<>>
    ELSE IF Head(s) = x THEN Tail(s)
    ELSE <<Head(s)>> \o Remove(Tail(s), x)

\* [x for x in s if Test(x)] is SelectSeq(s, Test)

\* dict assignment d[k] = v
Put(d, k, v) == [x \in DOMAIN d \cup {k} |-> IF x = k THEN v ELSE d[x]]

EmptyDict == [x \in {} |-> None]

LowerChar(c) ==
    CASE c = "G" -> "g"
      [] c = "U" -> "u"
      [] c = "I" -> "i"
      [] OTHER -> c

\* str.lower()
Lower(s) == [i \in 1..Len(s) |-> LowerChar(s[i])]

\* term in s
Contains(s, term) ==
    \E i \in 0..(Len(s) - Len(term)) :
        \A j \in 1..Len(term) : s[i + j] = term[j]

\* s.startswith(p)
StartsWith(s, p) == Len(s) >= Len(p) /\ \A j \in 1..Len(p) : s[j] = p[j]

\* sep.join(parts) for lists of strings
RECURSIVE Join(_, _)
Join(parts, sep) ==
    IF parts = <<>> THEN <<>>
    ELSE IF Len(parts) = 1 THEN parts[1]
    ELSE parts[1] \o sep \o Join(Tail(parts), sep)

\* s.split(c)[0]: the text before the first occurrence of the character c
RECURSIVE SplitFirst(_, _)
SplitFirst(s, c) ==
    IF s = <<>> THEN <<>>
    ELSE IF Head(s) = c THEN <<>>
    ELSE <<Head(s)>> \o SplitFirst(Tail(s), c)

\* s.replace(c, '') for a character c
Without(s, c) == LET Keep(x) == x # c IN SelectSeq(s, Keep)

Whitespace == {" ", "\n", "\t"}

\* s.strip()
RECURSIVE LStrip(_)
LStrip(s) ==
    IF s = <<>> THEN <<>>
    ELSE IF Head(s) \in Whitespace THEN LStrip(Tail(s))
    ELSE s

RECURSIVE RStrip(_)
RStrip(s) ==
    IF s = <<>> THEN <<>>
    ELSE IF s[Len(s)] \in Whitespace THEN RStrip(SubSeq(s, 1, Len(s) - 1))
    ELSE s

Strip(s) == RStrip(LStrip(s))

-----------------------------------------------------------------------------
(* Identifiers and architectures *)

NameDb == <<"d", "b">>
NameApi == <<"a", "p", "i">>
NameGui == <<"G", "u", "i">>
ModuleNames == {NameDb, NameApi, NameGui}

ClassFoo == <<"F", "o", "o">>
MethodBar == <<"b", "a", "r">>
MethodBaz == <<"b", "a", "z">>
ArgX == <<"x">>
ArgSelf == <<"s", "e", "l", "f">>

DependencyLists == {<<>>} \cup {<<n>> : n \in ModuleNames}
Priorities == 1..2

\* models.py ModuleSpec (purpose is free text used by prompts only)
ModuleSpecs ==
    [name : ModuleNames, class_name : {ClassFoo}, dependencies : DependencyLists,
     interfaces : {<<MethodBar, MethodBaz>>}, priority : Priorities]

SystemName == <<"S", " ", "-", "1">>

\* models.py SystemArchitecture (description and assembly_instructions are
\* free text used by prompts only)
Architectures ==
    {[system_name |-> SystemName, modules |-> ms] :
        ms \in UNION {[1..n -> ModuleSpecs] : n \in 0..MaxModules}}

ModuleNamesOf(arch) == {arch.modules[i].name : i \in 1..Len(arch.modules)}

-----------------------------------------------------------------------------
(* models.py: ModuleCreationState *)

\* min(available, key=priority): the first element of least priority
RECURSIVE MinByPriority(_, _)
MinByPriority(best, rest) ==
    IF rest = <<>> THEN best
    ELSE IF Head(rest).priority < best.priority THEN MinByPriority(Head(rest), Tail(rest))
    ELSE MinByPriority(best, Tail(rest))

\* mutant: a completed module is available again
available_modules_ignoring_completed(s) ==
    LET Available(m) ==
            /\ m.name \notin Range(s.in_progress_modules)
            /\ \A i \in 1..Len(m.dependencies) :
                   m.dependencies[i] \in Range(s.completed_modules)
    IN SelectSeq(s.architecture.modules, Available)

\* mutant: the dependencies are not looked at
available_modules_ignoring_dependencies(s) ==
    LET Available(m) ==
            /\ m.name \notin Range(s.completed_modules)
            /\ m.name \notin Range(s.in_progress_modules)
    IN SelectSeq(s.architecture.modules, Available)

available_modules(s) ==
    LET Available(m) ==
            /\ m.name \notin Range(s.completed_modules)
            /\ m.name \notin Range(s.in_progress_modules)
            /\ \A i \in 1..Len(m.dependencies) :
                   m.dependencies[i] \in Range(s.completed_modules)
    IN SelectSeq(s.architecture.modules, Available)

\* mutant: the first available module, whatever its priority
get_next_module_first_available(s) ==
    LET available == available_modules(s)
    IN IF available = <<>> THEN None ELSE Head(available)

\* mutant: among the available modules of least priority, the last one
get_next_module_last_of_ties(s) ==
    LET available == available_modules(s)
        reversed == [i \in 1..Len(available) |-> available[Len(available) + 1 - i]]
    IN IF available = <<>> THEN None
       ELSE MinByPriority(Head(reversed), Tail(reversed))

get_next_module(s) ==
    LET available == available_modules(s)
    IN IF available = <<>> THEN None
       ELSE MinByPriority(Head(available), Tail(available))

\* mutant: the name is appended whether or not it is there already
mark_module_in_progress_appending_again(s, module_name) ==
    LET p == IF module_name \in Range(s.pending_modules)
                 THEN Remove(s.pending_modules, module_name)
                 ELSE s.pending_modules
    IN [s EXCEPT !.pending_modules = p,
                 !.in_progress_modules = Append(s.in_progress_modules, module_name)]

mark_module_in_progress(s, module_name) ==
    LET p == IF module_name \in Range(s.pending_modules)
                 THEN Remove(s.pending_modules, module_name)
                 ELSE s.pending_modules
        q == IF module_name \notin Range(s.in_progress_modules)
                 THEN Append(s.in_progress_modules, module_name)
                 ELSE s.in_progress_modules
    IN [s EXCEPT !.pending_modules = p, !.in_progress_modules = q]

\* mutant: the name goes back to pending_modules
mark_module_completed_back_to_pending(s, module_name) ==
    LET q == IF module_name \in Range(s.in_progress_modules)
                 THEN Remove(s.in_progress_modules, module_name)
                 ELSE s.in_progress_modules
    IN [s EXCEPT !.in_progress_modules = q,
                 !.pending_modules = Append(s.pending_modules, module_name)]

\* mutant: the name stays in in_progress_modules
mark_module_completed_keeps_in_progress(s, module_name) ==
    LET c == IF module_name \notin Range(s.completed_modules)
                 THEN Append(s.completed_modules, module_name)
                 ELSE s.completed_modules
    IN [s EXCEPT !.completed_modules = c]

mark_module_completed(s, module_name) ==
    LET q == IF module_name \in Range(s.in_progress_modules)
                 THEN Remove(s.in_progress_modules, module_name)
                 ELSE s.in_progress_modules
        c == IF module_name \notin Range(s.completed_modules)
                 THEN Append(s.completed_modules, module_name)
                 ELSE s.completed_modules
    IN [s EXCEPT !.in_progress_modules = q, !.completed_modules = c]

\* mutant: the loop condition is off by one
is_system_complete_one_short(s) ==
    Len(s.completed_modules) + 1 >= Len(s.architecture.modules)

is_system_complete(s) == Len(s.completed_modules) = Len(s.architecture.modules)

-----------------------------------------------------------------------------
(* architecture_planner.py *)

UiTerms ==
    << <<"u", "i">>,
       <<"i", "n", "t", "e", "r", "f", "a", "c", "e">>,
       <<"f", "r", "o", "n", "t", "e", "n", "d">>,
       <<"w", "e", "b">>,
       <<"g", "u", "i">> >>

\* any(term in name.lower() for term in [...])
is_ui_name(name) == \E t \in 1..Len(UiTerms) : Contains(Lower(name), UiTerms[t])

\* mutant: the modules with a forbidden name are reported but kept
_validate_and_clean_architecture_keeping_all(arch) == arch

_validate_and_clean_architecture(arch) ==
    LET Ui(m) == is_ui_name(m.name)
        Keep(m) == ~is_ui_name(m.name)
        ui_modules == SelectSeq(arch.modules, Ui)
    IN IF ui_modules # <<>>
           THEN [arch EXCEPT !.modules = SelectSeq(arch.modules, Keep)]
           ELSE arch

create_module_state(arch) ==
    [architecture |-> arch,
     completed_modules |-> <<>>,
     in_progress_modules |-> <<>>,
     pending_modules |-> [i \in 1..Len(arch.modules) |-> arch.modules[i].name]]

-----------------------------------------------------------------------------
(* module_creator.py: interface extraction and contract validation *)

\* Syntax trees as ast.parse builds them, reduced to the node types the
\* extractor looks at; a text that does not parse has parses = FALSE.
FunctionDef(name, args, body) ==
    [type |-> "FunctionDef", name |-> name, args |-> args, body |-> body]
ClassDef(name, body) ==
    [type |-> "ClassDef", name |-> name, args |-> <<>>, body |-> body]
SourceText(body) == [parses |-> TRUE, body |-> body]
SyntaxErrorText == [parses |-> FALSE, body |-> <<>>]

\* ast.walk: breadth first, a node before its children
RECURSIVE Walk(_)
Walk(todo) ==
    IF todo = <<>> THEN <<>>
    ELSE <<Head(todo)>> \o Walk(Tail(todo) \o Head(todo).body)

\* f"{name}({', '.join(args)})"
Signature(name, args) == name \o <<"(">> \o Join(args, <<",", " ">>) \o <<")">>

IsPrivate(name) == StartsWith(name, <<"_">>)

\* item.args.args[1:]
SkipFirst(args) == IF args = <<>> THEN <<>> ELSE Tail(args)

class_methods_of(node) ==
    LET IsPublicDef(item) == item.type = "FunctionDef" /\ ~IsPrivate(item.name)
        items == SelectSeq(node.body, IsPublicDef)
    IN [i \in 1..Len(items) |-> Signature(items[i].name, SkipFirst(items[i].args))]

_extract_module_interface(module_name, code) ==
    IF ~code.parses
        THEN [classes |-> EmptyDict, functions |-> <<>>]
        ELSE LET nodes == Walk(code.body)
                 IsClass(n) == n.type = "ClassDef"
                 IsPublicFunction(n) == n.type = "FunctionDef" /\ ~IsPrivate(n.name)
                 class_nodes == SelectSeq(nodes, IsClass)
                 function_nodes == SelectSeq(nodes, IsPublicFunction)
                 \* classes[node.name] = class_methods: the last assignment stays
                 LastClass(c) ==
                     class_nodes[CHOOSE i \in 1..Len(class_nodes) :
                                    /\ class_nodes[i].name = c
                                    /\ \A j \in (i + 1)..Len(class_nodes) :
                                           class_nodes[j].name # c]
             IN [classes |->
                     [c \in {class_nodes[i].name : i \in 1..Len(class_nodes)} |->
                         class_methods_of(LastClass(c))],
                 functions |->
                     [i \in 1..Len(function_nodes) |->
                         Signature(function_nodes[i].name, function_nodes[i].args)]]

MainClassIssue(class_name) == <<"Main class not found", class_name>>
MethodIssue(required_method, class_name) ==
    <<"Required method not implemented", required_method, class_name>>

\* mutant: the required methods are reported missing along with the class
_validate_module_interface_reporting_methods_too(module_spec, interface) ==
    IF module_spec.class_name \notin DOMAIN interface.classes
        THEN <<MainClassIssue(module_spec.class_name)>>
             \o [i \in 1..Len(module_spec.interfaces) |->
                    MethodIssue(module_spec.interfaces[i], module_spec.class_name)]
        ELSE LET class_methods == interface.classes[module_spec.class_name]
                 implemented_methods ==
                     {SplitFirst(class_methods[i], "(") : i \in 1..Len(class_methods)}
                 Missing(required_method) == required_method \notin implemented_methods
                 missing == SelectSeq(module_spec.interfaces, Missing)
             IN [i \in 1..Len(missing) |-> MethodIssue(missing[i], module_spec.class_name)]

\* mutant: only the first missing method is reported
_validate_module_interface_first_missing_only(module_spec, interface) ==
    IF module_spec.class_name \notin DOMAIN interface.classes
        THEN <<MainClassIssue(module_spec.class_name)>>
        ELSE LET class_methods == interface.classes[module_spec.class_name]
                 implemented_methods ==
                     {SplitFirst(class_methods[i], "(") : i \in 1..Len(class_methods)}
                 Missing(required_method) == required_method \notin implemented_methods
                 missing == SelectSeq(module_spec.interfaces, Missing)
             IN IF missing = <<>> THEN <<>>
                ELSE <<MethodIssue(missing[1], module_spec.class_name)>>

_validate_module_interface(module_spec, interface) ==
    IF module_spec.class_name \notin DOMAIN interface.classes
        THEN <<MainClassIssue(module_spec.class_name)>>
        ELSE LET class_methods == interface.classes[module_spec.class_name]
                 implemented_methods ==
                     {SplitFirst(class_methods[i], "(") : i \in 1..Len(class_methods)}
                 Missing(required_method) == required_method \notin implemented_methods
                 missing == SelectSeq(module_spec.interfaces, Missing)
             IN [i \in 1..Len(missing) |-> MethodIssue(missing[i], module_spec.class_name)]

\* Texts the generation backend may return for a module
InitDef == FunctionDef(<<"_", "_", "i", "n", "i", "t", "_", "_">>, <<ArgSelf>>, <<>>)
BarDef == FunctionDef(MethodBar, <<ArgSelf, ArgX>>, <<>>)
BazDef == FunctionDef(MethodBaz, <<ArgSelf>>, <<>>)
TextComplete == SourceText(<<ClassDef(ClassFoo, <<InitDef, BarDef, BazDef>>)>>)
TextPartial == SourceText(<<ClassDef(ClassFoo, <<InitDef, BarDef>>)>>)
BackendTexts == {TextComplete, TextPartial, SyntaxErrorText}

-----------------------------------------------------------------------------
(* Initial state: the planning backend has returned an architecture *)

max_retries == 2

NoState == None

Init ==
    /\ pc = "start"
    /\ planner_result \in Architectures
    /\ removed_modules = <<>>
    /\ error = None
    /\ architecture = None
    /\ module_state = NoState
    /\ module_interfaces = EmptyDict
    /\ files = EmptyDict
    /\ created_modules = EmptyDict
    /\ next_module = Unbound
    /\ attempt = UnboundNumber
    /\ module_result = Unbound
    /\ previous_result = Unbound
    /\ validation_issues = UnboundIssues
    /\ attempt_log = <<>>
    /\ iterations = 0
    /\ generation_order = <<>>
    /\ outcome = "none"
    /\ integration_result = UnboundText
    /\ assembly_result = None
    /\ assembly_log = <<>>
    /\ returned = Unbound

retry_locals == <<attempt, module_result, previous_result, validation_issues, attempt_log>>
outputs == <<module_interfaces, files>>
history == <<iterations, generation_order>>
assembly_locals == <<integration_result, assembly_result, assembly_log>>

-----------------------------------------------------------------------------
(* flow.py *)

\* EngineeringFlow.architecture_planning: plan_architecture cleans the planner's
\* architecture, create_module_state builds the state from the cleaned one
architecture_planning ==
    /\ pc = "start"
    /\ LET validated_architecture == _validate_and_clean_architecture(planner_result)
           Ui(m) == is_ui_name(m.name)
           ui_modules == SelectSeq(planner_result.modules, Ui)
       IN /\ architecture' = validated_architecture
          /\ module_state' = create_module_state(validated_architecture)
          /\ removed_modules' = [i \in 1..Len(ui_modules) |-> ui_modules[i].name]
    /\ planner_result' = None
    /\ pc' = "create_modules"
    /\ UNCHANGED <<outputs, created_modules, next_module, retry_locals, history,
                   outcome, error>>
    /\ UNCHANGED <<assembly_locals, returned>>

\* ModuleCreator.create_modules called by a caller other than the flow, with
\* an architecture that has not been cleaned and the state built from it
call_create_modules ==
    /\ pc = "start"
    /\ architecture' = planner_result
    /\ module_state' = create_module_state(planner_result)
    /\ planner_result' = None
    /\ pc' = "create_modules"
    /\ UNCHANGED <<outputs, created_modules, next_module, retry_locals, history,
                   outcome, error, removed_modules>>
    /\ UNCHANGED <<assembly_locals, returned>>

-----------------------------------------------------------------------------
(* module_creator.py: create_modules *)

\* mutant: the hard validation is left out
create_modules_enter_without_validation ==
    /\ pc = "create_modules"
    /\ pc' = "loop"
    /\ created_modules' = EmptyDict
    /\ UNCHANGED <<planner_result, removed_modules, error, architecture,
                   module_state, outputs, next_module, retry_locals, history, outcome>>
    /\ UNCHANGED <<assembly_locals, returned>>

\* the hard validation before the loop
create_modules_enter ==
    /\ pc = "create_modules"
    /\ LET Ui(m) == is_ui_name(m.name)
           ui_modules == SelectSeq(architecture.modules, Ui)
       IN IF ui_modules # <<>>
              THEN \* raise ValueError(f"UI modules not allowed: {[m.name for m in ui_modules]}...")
                   /\ error' = [type |-> "ValueError",
                                names |-> [i \in 1..Len(ui_modules) |-> ui_modules[i].name]]
                   /\ pc' = "raised"
                   /\ outcome' = "raised"
              ELSE /\ pc' = "loop"
                   /\ outcome' = outcome
                   /\ error' = error
    /\ created_modules' = EmptyDict
    /\ UNCHANGED <<planner_result, removed_modules, architecture, module_state, outputs,
                   next_module, retry_locals, history>>
    /\ UNCHANGED <<assembly_locals, returned>>

\* while not is_system_complete(): the condition is false, the function returns
create_modules_complete ==
    /\ pc = "loop"
    /\ is_system_complete(module_state)
    /\ pc' = "modules_returned"
    /\ outcome' = "returned"
    /\ UNCHANGED <<planner_result, removed_modules, error, architecture,
                   module_state, outputs,
                   created_modules, next_module, retry_locals, history>>
    /\ UNCHANGED <<assembly_locals, returned>>

\* mutant: a module with a forbidden name is generated like any other
create_modules_next_without_skip ==
    /\ pc = "loop"
    /\ ~is_system_complete(module_state)
    /\ iterations' = iterations + 1
    /\ next_module' = get_next_module(module_state)
    /\ IF next_module' = None
           THEN /\ pc' = "modules_returned"
                /\ outcome' = "returned"
                /\ UNCHANGED <<module_state, attempt, generation_order>>
           ELSE /\ module_state' = mark_module_in_progress(module_state, next_module'.name)
                /\ attempt' = 0
                /\ generation_order' = Append(generation_order, next_module')
                /\ pc' = "generate"
                /\ UNCHANGED outcome
    /\ UNCHANGED <<planner_result, removed_modules, error, architecture, outputs,
                   created_modules,
                   module_result, previous_result, validation_issues, attempt_log>>
    /\ UNCHANGED <<assembly_locals, returned>>

\* one entry of the loop body, up to the call of _create_single_module_with_retry
create_modules_next ==
    /\ pc = "loop"
    /\ ~is_system_complete(module_state)
    /\ iterations' = iterations + 1
    /\ next_module' = get_next_module(module_state)
    /\ IF next_module' = None
           THEN \* break, then return
                /\ pc' = "modules_returned"
                /\ outcome' = "returned"
                /\ UNCHANGED <<module_state, attempt, generation_order>>
           ELSE IF is_ui_name(next_module'.name)
           THEN \* skipped: marked completed, continue
                /\ module_state' = mark_module_completed(module_state, next_module'.name)
                /\ pc' = "loop"
                /\ UNCHANGED <<outcome, attempt, generation_order>>
           ELSE /\ module_state' = mark_module_in_progress(module_state, next_module'.name)
                /\ attempt' = 0
                /\ generation_order' = Append(generation_order, next_module')
                /\ pc' = "generate"
                /\ UNCHANGED outcome
    /\ UNCHANGED <<planner_result, removed_modules, error, architecture, outputs,
                   created_modules,
                   module_result, previous_result, validation_issues, attempt_log>>
    /\ UNCHANGED <<assembly_locals, returned>>

\* mutant: a module whose last attempt failed validation ends the run
create_modules_completed_only_if_valid ==
    /\ pc = "finish"
    /\ IF validation_issues = <<>>
           THEN /\ created_modules' = Put(created_modules, next_module.name, module_result)
                /\ module_state' = mark_module_completed(module_state, next_module.name)
                /\ attempt' = UnboundNumber
                /\ module_result' = Unbound
                /\ previous_result' = Unbound
                /\ validation_issues' = UnboundIssues
                /\ attempt_log' = <<>>
                /\ pc' = "loop"
                /\ UNCHANGED <<error, outcome>>
           ELSE /\ error' = [type |-> "ValueError", names |-> <<next_module.name>>]
                /\ pc' = "raised"
                /\ outcome' = "raised"
                /\ UNCHANGED <<created_modules, module_state, retry_locals>>
    /\ UNCHANGED <<planner_result, removed_modules, architecture, outputs,
                   next_module, history>>
    /\ UNCHANGED <<assembly_locals, returned>>

\* created_modules[name] = module_result; mark_module_completed(name)
create_modules_completed ==
    /\ pc = "finish"
    /\ created_modules' = Put(created_modules, next_module.name, module_result)
    /\ module_state' = mark_module_completed(module_state, next_module.name)
    /\ attempt' = UnboundNumber
    /\ module_result' = Unbound
    /\ previous_result' = Unbound
    /\ validation_issues' = UnboundIssues
    /\ attempt_log' = <<>>
    /\ pc' = "loop"
    /\ UNCHANGED <<planner_result, removed_modules, error, architecture, outputs,
                   next_module,
                   history, outcome>>
    /\ UNCHANGED <<assembly_locals, returned>>

-----------------------------------------------------------------------------
(* module_creator.py: _create_single_module_with_retry *)

\* the interface details of the given dependencies, read from the registry:
\* one entry per dependency, in the order of the list
_get_specific_interface(dependencies) ==
    LET dep_details(dep) ==
            IF dep \in DOMAIN module_interfaces
                THEN [module |-> dep,
                      available |-> TRUE,
                      classes |-> module_interfaces[dep].classes,
                      functions |-> module_interfaces[dep].functions]
                ELSE \* f"Module: {dep} (interface not yet available)"
                     [module |-> dep,
                      available |-> FALSE,
                      classes |-> EmptyDict,
                      functions |-> <<>>]
    IN [i \in 1..Len(dependencies) |-> dep_details(dependencies[i])]

\* dependency_info of both generation functions
dependency_info(module_spec) ==
    IF module_spec.dependencies # <<>>
        THEN _get_specific_interface(module_spec.dependencies)
        ELSE <<>>

\* mutant: only the first attempt is written to the module's file
generated_keeping_first_file(by, module_spec, request, result, design) ==
    LET module_interface == _extract_module_interface(module_spec.name, result)
    IN /\ files' = IF module_spec.name \in DOMAIN files
                       THEN files
                       ELSE Put(files, module_spec.name, result)
       /\ module_interfaces' = Put(module_interfaces, module_spec.name, module_interface)
       /\ module_result' = [design |-> design,
                            code |-> result,
                            file_path |-> module_spec.name,
                            interface |-> module_interface,
                            validation_issues |-> <<>>]
       /\ attempt_log' = Append(attempt_log,
                                [by |-> by, text |-> result, request |-> request])

\* mutant: an attempt replaces the whole registry by its own entry
generated_resetting_registry(by, module_spec, request, result, design) ==
    LET module_interface == _extract_module_interface(module_spec.name, result)
    IN /\ files' = Put(files, module_spec.name, result)
       /\ module_interfaces' = Put(EmptyDict, module_spec.name, module_interface)
       /\ module_result' = [design |-> design,
                            code |-> result,
                            file_path |-> module_spec.name,
                            interface |-> module_interface,
                            validation_issues |-> <<>>]
       /\ attempt_log' = Append(attempt_log,
                                [by |-> by, text |-> result, request |-> request])

\* what both generation functions do with the text the backend returned for
\* the request they built
generated(by, module_spec, request, result, design) ==
    LET module_interface == _extract_module_interface(module_spec.name, result)
    IN /\ files' = Put(files, module_spec.name, result)
       /\ module_interfaces' = Put(module_interfaces, module_spec.name, module_interface)
       /\ module_result' = [design |-> design,
                            code |-> result,
                            file_path |-> module_spec.name,
                            interface |-> module_interface,
                            validation_issues |-> <<>>]
       /\ attempt_log' = Append(attempt_log,
                                [by |-> by, text |-> result, request |-> request])

\* attempt == 0: _create_single_module
_create_single_module ==
    /\ pc = "generate"
    /\ attempt = 0
    /\ LET request == [module_spec |-> next_module,
                       dependency_info |-> dependency_info(next_module),
                       feedback |-> <<>>]
       IN \E result \in BackendTexts :
              generated("_create_single_module", next_module, request, result, "design")
    /\ pc' = "validate"
    /\ UNCHANGED <<planner_result, removed_modules, error, architecture,
                   module_state, created_modules,
                   next_module, attempt, previous_result, validation_issues,
                   history, outcome>>
    /\ UNCHANGED <<assembly_locals, returned>>

\* attempt > 0: _retry_module_with_feedback(previous_result, validation_issues)
_retry_module_with_feedback ==
    /\ pc = "generate"
    /\ attempt > 0
    /\ LET request == [module_spec |-> next_module,
                       dependency_info |-> dependency_info(next_module),
                       feedback |-> <<previous_result.code, validation_issues>>]
       IN \E result \in BackendTexts :
              generated("_retry_module_with_feedback", next_module, request, result,
                        previous_result.design)
    /\ pc' = "validate"
    /\ UNCHANGED <<planner_result, removed_modules, error, architecture,
                   module_state, created_modules,
                   next_module, attempt, previous_result, validation_issues,
                   history, outcome>>
    /\ UNCHANGED <<assembly_locals, returned>>

\* mutant: a valid attempt is retried like an invalid one
after_validation_ignoring_success(issues, att) ==
    IF att < max_retries THEN "retry" ELSE "exhausted"

\* mutant: the last retry is not made
after_validation_one_retry_less(issues, att) ==
    IF issues = <<>> THEN "return"
    ELSE IF att + 1 < max_retries THEN "retry"
    ELSE "exhausted"

\* what the loop body does once the attempt is validated
after_validation(issues, att) ==
    IF issues = <<>> THEN "return"
    ELSE IF att < max_retries THEN "retry"
    ELSE "exhausted"

\* mutant: an attempt whose interface holds no class ends the run
validate_attempt_aborting_on_empty_interface ==
    /\ pc = "validate"
    /\ validation_issues' = _validate_module_interface(next_module, module_result.interface)
    /\ IF DOMAIN module_result.interface.classes = {}
           THEN /\ pc' = "raised"
                /\ outcome' = "raised"
                /\ UNCHANGED <<attempt, previous_result>>
           ELSE IF after_validation(validation_issues', attempt) = "retry"
           THEN /\ previous_result' = module_result
                /\ attempt' = attempt + 1
                /\ pc' = "generate"
                /\ UNCHANGED outcome
           ELSE /\ pc' = "finish"
                /\ UNCHANGED <<attempt, previous_result, outcome>>
    /\ UNCHANGED <<planner_result, removed_modules, error, architecture,
                   module_state, outputs,
                   created_modules, next_module, module_result, attempt_log,
                   history>>
    /\ UNCHANGED <<assembly_locals, returned>>

\* mutant: the second retry is given the result of the first attempt again
validate_attempt_stale_feedback ==
    /\ pc = "validate"
    /\ validation_issues' = _validate_module_interface(next_module, module_result.interface)
    /\ IF after_validation(validation_issues', attempt) = "retry"
           THEN /\ previous_result' = IF attempt = 0 THEN module_result ELSE previous_result
                /\ attempt' = attempt + 1
                /\ pc' = "generate"
           ELSE /\ pc' = "finish"
                /\ UNCHANGED <<attempt, previous_result>>
    /\ UNCHANGED <<planner_result, removed_modules, error, architecture,
                   module_state, outputs,
                   created_modules, next_module, module_result, attempt_log,
                   history, outcome>>
    /\ UNCHANGED <<assembly_locals, returned>>

\* the rest of the loop body: validate, then return, retry or give up
validate_attempt ==
    /\ pc = "validate"
    /\ validation_issues' = _validate_module_interface(next_module, module_result.interface)
    /\ IF after_validation(validation_issues', attempt) = "retry"
           THEN /\ previous_result' = module_result
                /\ attempt' = attempt + 1
                /\ pc' = "generate"
           ELSE \* return module_result, from inside the loop or after it
                /\ pc' = "finish"
                /\ UNCHANGED <<attempt, previous_result>>
    /\ UNCHANGED <<planner_result, removed_modules, error, architecture,
                   module_state, outputs,
                   created_modules, next_module, module_result, attempt_log,
                   history, outcome>>
    /\ UNCHANGED <<assembly_locals, returned>>

-----------------------------------------------------------------------------
(* system_assembler.py *)

\* The texts of the assembly are character sequences, held in a record
Text(chars) == [chars |-> chars]

FileIntegration == <<"system_integration.py">>
FileTests == <<"test_system.py">>
FileDemo == <<"app.py">>
FileReadme == <<"README.md">>

integration_max_retries == 1

\* len(content) < 50: the file is too small to be meaningful
MinMeaningfulLength == 50

ClassKeyword == <<"c", "l", "a", "s", "s", " ">>
IntegrationSuffix == <<"I", "n", "t", "e", "g", "r", "a", "t", "i", "o", "n">>
OsGetenv == <<"o", "s", ".", "g", "e", "t", "e", "n", "v">>
ImportOs == <<"i", "m", "p", "o", "r", "t", " ", "o", "s">>

\* f"{architecture.system_name.replace(' ', '').replace('-', '')}Integration"
expected_class(arch) ==
    Without(Without(arch.system_name, " "), "-") \o IntegrationSuffix

EmptyIssue(filename) == <<"is empty", filename>>
GetenvIssue(filename) == <<"uses os.getenv but doesn't import os", filename>>
IntegrationClassIssue(filename, class_name) ==
    <<"missing expected integration class", filename, class_name>>

\* mutant: the checks stop at the first issue found
_validate_generated_code_quality_first_issue_only(code, filename, arch) ==
    IF Strip(code.chars) = <<>>
        THEN <<EmptyIssue(filename)>>
    ELSE IF Contains(code.chars, OsGetenv) /\ ~Contains(code.chars, ImportOs)
        THEN <<GetenvIssue(filename)>>
    ELSE IF filename = FileIntegration
               /\ ~Contains(code.chars, ClassKeyword \o expected_class(arch))
        THEN <<IntegrationClassIssue(filename, expected_class(arch))>>
    ELSE <<>>

_validate_generated_code_quality(code, filename, arch) ==
    IF Strip(code.chars) = <<>>
        THEN <<EmptyIssue(filename)>>
        ELSE (IF Contains(code.chars, OsGetenv) /\ ~Contains(code.chars, ImportOs)
                  THEN <<GetenvIssue(filename)>>
                  ELSE <<>>)
             \o
             (IF filename = FileIntegration
                     /\ ~Contains(code.chars, ClassKeyword \o expected_class(arch))
                  THEN <<IntegrationClassIssue(filename, expected_class(arch))>>
                  ELSE <<>>)

NoClassesIssue(module_name) == <<"has no classes defined", module_name>>
TooSmallIssue(filename) == <<"appears to be empty or too small", filename>>

\* modules is created_modules; order is the order of its keys (insertion
\* order); fs is the output directory
_validate_integration_dependencies(modules, order, fs) ==
    LET NoClasses(module_name) == DOMAIN modules[module_name].interface.classes = {}
        without_classes == SelectSeq(order, NoClasses)
        expected_files == <<FileIntegration, FileDemo, FileTests>>
        TooSmall(file_name) ==
            /\ file_name \in DOMAIN fs
            /\ Len(Strip(fs[file_name].chars)) < MinMeaningfulLength
        too_small == SelectSeq(expected_files, TooSmall)
    IN [i \in 1..Len(without_classes) |-> NoClassesIssue(without_classes[i])]
       \o [i \in 1..Len(too_small) |-> TooSmallIssue(too_small[i])]

\* Texts the generation backend may return in the assembly
Padding == [i \in 1..MinMeaningfulLength |-> "#"]
TextIntegration ==
    Text(ImportOs \o <<"\n">> \o ClassKeyword \o <<"S", "1">> \o IntegrationSuffix
         \o <<":", "\n">> \o OsGetenv \o Padding)
TextIntegrationOtherClass ==
    Text(ClassKeyword \o <<"S", "1">> \o <<":", "\n">> \o Padding)
IntegrationTexts == {TextIntegration, TextIntegrationOtherClass}
TextTests == Text(<<"t", "e", "s", "t">> \o Padding)
TextDemo == Text(<<"d", "e", "m", "o">> \o Padding)
TextDemoShort == Text(<<"d", "e", "m", "o", "\n">>)
DemoTexts == {TextDemo, TextDemoShort}
TextReadme == Text(<<"#", " ">> \o SystemName)

creation == <<planner_result, removed_modules, error, architecture, module_state,
              module_interfaces,
              created_modules, next_module, module_result, attempt_log,
              iterations, generation_order, outcome>>

\* EngineeringFlow.assemble_system: create_modules has returned; the assembler
\* is built on the interface registry and SystemAssembler.assemble_system
\* starts with _create_system_integration_with_retry
assemble_system ==
    /\ pc = "modules_returned"
    /\ attempt' = 0
    /\ pc' = "integration"
    /\ UNCHANGED <<creation, files, previous_result, validation_issues,
                   assembly_locals, returned>>

\* what every generation function of the assembly does with the backend's text
assembled(by, file_name, result, request) ==
    /\ files' = Put(files, file_name, result)
    /\ assembly_log' = Append(assembly_log,
                              [by |-> by, text |-> result, request |-> request])

\* attempt == 0: _create_system_integration
_create_system_integration ==
    /\ pc = "integration"
    /\ attempt = 0
    /\ \E result \in IntegrationTexts :
           /\ assembled("_create_system_integration", FileIntegration, result, <<>>)
           /\ integration_result' = result
    /\ pc' = "integration_validate"
    /\ UNCHANGED <<creation, attempt, previous_result, validation_issues,
                   assembly_result, returned>>

\* attempt > 0: _retry_integration_with_feedback(previous_result, validation_issues)
_retry_integration_with_feedback ==
    /\ pc = "integration"
    /\ attempt > 0
    /\ \E result \in IntegrationTexts :
           /\ assembled("_retry_integration_with_feedback", FileIntegration, result,
                        <<previous_result, validation_issues>>)
           /\ integration_result' = result
    /\ pc' = "integration_validate"
    /\ UNCHANGED <<creation, attempt, previous_result, validation_issues,
                   assembly_result, returned>>

\* mutant: the tests are started without the retry
validate_integration_without_retry ==
    /\ pc = "integration_validate"
    /\ validation_issues' =
           _validate_generated_code_quality(integration_result, FileIntegration, architecture)
    /\ pc' = "tests"
    /\ UNCHANGED <<attempt, previous_result>>
    /\ UNCHANGED <<creation, files, assembly_locals, returned>>

\* mutant: one retry more than max_retries
validate_integration_one_more_retry ==
    /\ pc = "integration_validate"
    /\ validation_issues' =
           _validate_generated_code_quality(integration_result, FileIntegration, architecture)
    /\ IF validation_issues' # <<>> /\ attempt < integration_max_retries + 1
           THEN /\ previous_result' = integration_result
                /\ attempt' = attempt + 1
                /\ pc' = "integration"
           ELSE /\ pc' = "tests"
                /\ UNCHANGED <<attempt, previous_result>>
    /\ UNCHANGED <<creation, files, assembly_locals, returned>>

\* mutant: an integration that still fails after the retry ends the run
validate_integration_raising_when_exhausted ==
    /\ pc = "integration_validate"
    /\ validation_issues' =
           _validate_generated_code_quality(integration_result, FileIntegration, architecture)
    /\ IF validation_issues' # <<>> /\ attempt < integration_max_retries
           THEN /\ previous_result' = integration_result
                /\ attempt' = attempt + 1
                /\ pc' = "integration"
           ELSE IF validation_issues' # <<>>
           THEN /\ pc' = "raised"
                /\ UNCHANGED <<attempt, previous_result>>
           ELSE /\ pc' = "tests"
                /\ UNCHANGED <<attempt, previous_result>>
    /\ UNCHANGED <<creation, files, assembly_locals, returned>>

\* the rest of the body of the loop of _create_system_integration_with_retry
validate_integration ==
    /\ pc = "integration_validate"
    /\ validation_issues' =
           _validate_generated_code_quality(integration_result, FileIntegration, architecture)
    /\ IF validation_issues' # <<>> /\ attempt < integration_max_retries
           THEN /\ previous_result' = integration_result
                /\ attempt' = attempt + 1
                /\ pc' = "integration"
           ELSE \* return integration_result, from inside the loop or after it
                /\ pc' = "tests"
                /\ UNCHANGED <<attempt, previous_result>>
    /\ UNCHANGED <<creation, files, assembly_locals, returned>>

_create_system_tests ==
    /\ pc = "tests"
    /\ assembled("_create_system_tests", FileTests, TextTests, <<>>)
    /\ pc' = "demo"
    /\ UNCHANGED <<creation, attempt, previous_result, validation_issues,
                   integration_result, assembly_result, returned>>

_create_demo_application ==
    /\ pc = "demo"
    /\ \E result \in DemoTexts :
           assembled("_create_demo_application", FileDemo, result, <<>>)
    /\ pc' = "readme"
    /\ UNCHANGED <<creation, attempt, previous_result, validation_issues,
                   integration_result, assembly_result, returned>>

_create_readme_documentation ==
    /\ pc = "readme"
    /\ assembled("_create_readme_documentation", FileReadme, TextReadme, <<>>)
    /\ pc' = "validate_dependencies"
    /\ UNCHANGED <<creation, attempt, previous_result, validation_issues,
                   integration_result, assembly_result, returned>>

\* the end of SystemAssembler.assemble_system: the post-hoc check and the result
assemble_system_return ==
    /\ pc = "validate_dependencies"
    /\ assembly_result' =
           [architecture |-> architecture,
            modules |-> created_modules,
            integration |-> integration_result,
            tests |-> files[FileTests],
            demo |-> files[FileDemo],
            readme |-> files[FileReadme],
            integration_issues |->
                _validate_integration_dependencies(
                    created_modules,
                    [i \in 1..Len(generation_order) |-> generation_order[i].name],
                    files)]
    /\ pc' = "assembled"
    /\ UNCHANGED <<creation, files, attempt, previous_result, validation_issues,
                   integration_result, assembly_log, returned>>

-----------------------------------------------------------------------------

Next ==
    \/ architecture_planning
    \/ call_create_modules
    \/ create_modules_enter
    \/ create_modules_complete
    \/ create_modules_next
    \/ _create_single_module
    \/ _retry_module_with_feedback
    \/ validate_attempt
    \/ create_modules_completed

Spec == Init /\ [][Next]_vars

\* the driver is one thread that always takes its next step
FairSpec == Spec /\ WF_vars(Next)

-----------------------------------------------------------------------------
(* flow.py: a run of EngineeringFlow, from the planner's result to the
   result of the assembly *)

NextFlow ==
    \/ architecture_planning
    \/ create_modules_enter
    \/ create_modules_complete
    \/ create_modules_next
    \/ _create_single_module
    \/ _retry_module_with_feedback
    \/ validate_attempt
    \/ create_modules_completed
    \/ assemble_system
    \/ _create_system_integration
    \/ _retry_integration_with_feedback
    \/ validate_integration
    \/ _create_system_tests
    \/ _create_demo_application
    \/ _create_readme_documentation
    \/ assemble_system_return

FlowSpec == Init /\ [][NextFlow]_vars

\* the flow is one thread that always takes its next step, and every backend
\* call returns
FairFlowSpec == FlowSpec /\ WF_vars(NextFlow)

-----------------------------------------------------------------------------
(* module_creator.py: the generation backend fails.  mini_crew.kickoff() is
   called with no handler around it in _create_single_module,
   _retry_module_with_feedback, _create_single_module_with_retry and
   create_modules, so its exception leaves create_modules. *)

\* mutant: the module is marked completed before the error leaves
kickoff_raises_after_completing ==
    /\ pc = "generate"
    /\ error' = [type |-> "BackendError", names |-> <<next_module.name>>]
    /\ module_state' = mark_module_completed(module_state, next_module.name)
    /\ pc' = "raised"
    /\ outcome' = "raised"
    /\ UNCHANGED <<planner_result, removed_modules, architecture, outputs,
                   created_modules, next_module, retry_locals, history>>
    /\ UNCHANGED <<assembly_locals, returned>>

\* result = mini_crew.kickoff() raises, on the first attempt or on a retry:
\* nothing after the call is executed
kickoff_raises ==
    /\ pc = "generate"
    /\ error' = [type |-> "BackendError", names |-> <<next_module.name>>]
    /\ pc' = "raised"
    /\ outcome' = "raised"
    /\ UNCHANGED <<planner_result, removed_modules, architecture, module_state, outputs,
                   created_modules, next_module, retry_locals, history>>
    /\ UNCHANGED <<assembly_locals, returned>>

NextFail ==
    \/ Next
    \/ kickoff_raises

FailSpec == Init /\ [][NextFail]_vars

-----------------------------------------------------------------------------
(* module_creator.py: create_modules(architecture, module_state) takes the
   architecture and the state as two arguments. Here a caller passes the
   cleaned architecture together with a state that was built from the
   planner's architecture before it was cleaned: the hard validation passes
   and the loop meets the forbidden names in the state *)

call_create_modules_with_uncleaned_state ==
    /\ pc = "start"
    /\ architecture' = _validate_and_clean_architecture(planner_result)
    /\ module_state' = create_module_state(planner_result)
    /\ planner_result' = None
    /\ pc' = "create_modules"
    /\ UNCHANGED <<outputs, created_modules, next_module, retry_locals, history,
                   outcome, error, removed_modules>>
    /\ UNCHANGED <<assembly_locals, returned>>

NextSkip ==
    \/ call_create_modules_with_uncleaned_state
    \/ create_modules_enter
    \/ create_modules_complete
    \/ create_modules_next
    \/ _create_single_module
    \/ _retry_module_with_feedback
    \/ validate_attempt
    \/ create_modules_completed

SkipSpec == Init /\ [][NextSkip]_vars

-----------------------------------------------------------------------------
(* architecture_planner.py: plan_architecture, from the backend's text to the
   cleaned architecture.

   The text is a sequence of tokens: an opening brace, a closing brace, a
   character of prose, or the members of the JSON object of an architecture
   (the text between the outermost braces of a well-formed answer, taken as
   one token). *)

MaxTextLen == 4

Open == [token |-> "{", members |-> None]
Close == [token |-> "}", members |-> None]
Prose == [token |-> "x", members |-> None]
JsonMembers(arch) == [token |-> "members", members |-> arch]

PlannerArchitectures ==
    {[system_name |-> SystemName, modules |-> <<m>>] :
        m \in {x \in ModuleSpecs : /\ x.dependencies = <<>>
                                    /\ x.priority = 1
                                    /\ x.name \in {NameDb, NameGui}}}

Tokens == {Open, Close, Prose} \cup {JsonMembers(arch) : arch \in PlannerArchitectures}

PlannerTexts == UNION {[1..n -> Tokens] : n \in 0..MaxTextLen}

\* re.search(r'\{.*\}', raw_content, re.DOTALL): the leftmost match starts at
\* the first opening brace, and .* is greedy, so it ends at the last closing
\* brace of the text
re_search(raw_content) ==
    LET opens == {i \in 1..Len(raw_content) : raw_content[i] = Open}
        first == CHOOSE i \in opens : \A k \in opens : i <= k
        closes == {j \in 1..Len(raw_content) : raw_content[j] = Close /\ j > first}
        last == CHOOSE j \in closes : \A k \in closes : k <= j
    IN IF opens = {} THEN None
       ELSE IF closes = {} THEN None
       ELSE [group |-> SubSeq(raw_content, first, last)]

\* json.loads: the value of the text, or no value when the text is not JSON
json_loads(text) ==
    IF text = <<Open, Close>>
        THEN [decoded |-> TRUE, value |-> EmptyDict]
    ELSE IF Len(text) = 3 /\ text[1] = Open /\ text[2].token = "members" /\ text[3] = Close
        THEN [decoded |-> TRUE, value |-> text[2].members]
    ELSE [decoded |-> FALSE, value |-> EmptyDict]

\* what _parse_architecture_result returns, or the exception it raises again
parse_architecture_result(raw_content) ==
    LET json_match == re_search(raw_content)
        arch_data == IF json_match # None
                         THEN json_loads(json_match.group)
                         ELSE json_loads(raw_content)
    IN IF ~arch_data.decoded
           THEN [raised |-> "JSONDecodeError", architecture |-> None]
       ELSE IF "modules" \notin DOMAIN arch_data.value
           THEN \* SystemArchitecture(**arch_data): required fields are missing
                [raised |-> "ValidationError", architecture |-> None]
       ELSE [raised |-> "", architecture |-> arch_data.value]

InitPlanner ==
    /\ pc = "plan"
    /\ planner_result = None
    /\ removed_modules = <<>>
    /\ error = None
    /\ architecture = None
    /\ module_state = NoState
    /\ module_interfaces = EmptyDict
    /\ files = EmptyDict
    /\ created_modules = EmptyDict
    /\ next_module = Unbound
    /\ attempt = UnboundNumber
    /\ module_result = Unbound
    /\ previous_result = Unbound
    /\ validation_issues = UnboundIssues
    /\ attempt_log = <<>>
    /\ iterations = 0
    /\ generation_order = <<>>
    /\ outcome = "none"
    /\ integration_result = UnboundText
    /\ assembly_result = None
    /\ assembly_log = <<>>
    /\ returned = Unbound

planner_frame == <<removed_modules, module_state, outputs, created_modules, next_module,
                   attempt, module_result, previous_result, validation_issues,
                   history, outcome, assembly_locals, returned>>

\* plan_architecture up to the return of the backend: result = mini_crew.kickoff()
plan_architecture ==
    /\ pc = "plan"
    /\ \E result \in PlannerTexts :
           /\ planner_result' = Text(result)
           /\ attempt_log' = Append(attempt_log,
                                    [by |-> "plan_architecture", text |-> Text(result),
                                     request |-> <<>>])
    /\ pc' = "parse"
    /\ UNCHANGED <<error, architecture, planner_frame>>

\* the rest of plan_architecture: _parse_architecture_result, then
\* _validate_and_clean_architecture, then the return; an exception of the
\* parse leaves plan_architecture
_parse_architecture_result ==
    /\ pc = "parse"
    /\ LET parsed == parse_architecture_result(planner_result.chars)
       IN IF parsed.raised # ""
              THEN /\ error' = [type |-> parsed.raised, names |-> <<>>]
                   /\ pc' = "raised"
                   /\ UNCHANGED architecture
              ELSE /\ architecture' = _validate_and_clean_architecture(parsed.architecture)
                   /\ pc' = "planned"
                   /\ UNCHANGED error
    /\ UNCHANGED <<planner_result, attempt_log, planner_frame>>

NextPlanner ==
    \/ plan_architecture
    \/ _parse_architecture_result

SpecPlanner == InitPlanner /\ [][NextPlanner]_vars

-----------------------------------------------------------------------------
(* system_assembler.py: _validate_generated_code_quality called with texts
   put together from the fragments its checks look for *)

MaxFragments == 3

SystemNameT == <<"T">>
SystemNames == {SystemName, SystemNameT}

Fragments ==
    {<<" ">>, <<"\n">>, <<"X">>, OsGetenv, ImportOs,
     ClassKeyword \o <<"S", "1">> \o IntegrationSuffix,
     ClassKeyword \o <<"S", "-", "1">> \o IntegrationSuffix,
     ClassKeyword \o <<"T">> \o IntegrationSuffix}

RECURSIVE Concat(_)
Concat(parts) == IF parts = <<>> THEN <<>> ELSE Head(parts) \o Concat(Tail(parts))

QualityTexts ==
    {Text(Concat(parts)) : parts \in UNION {[1..n -> Fragments] : n \in 0..MaxFragments}}

InitQuality ==
    /\ pc = "quality"
    /\ planner_result = None
    /\ removed_modules = <<>>
    /\ error = None
    /\ architecture = None
    /\ module_state = NoState
    /\ module_interfaces = EmptyDict
    /\ files = EmptyDict
    /\ created_modules = EmptyDict
    /\ next_module = Unbound
    /\ attempt = UnboundNumber
    /\ module_result = Unbound
    /\ previous_result = Unbound
    /\ validation_issues = UnboundIssues
    /\ attempt_log = <<>>
    /\ iterations = 0
    /\ generation_order = <<>>
    /\ outcome = "none"
    /\ integration_result = UnboundText
    /\ assembly_result = None
    /\ assembly_log = <<>>
    /\ returned = Unbound

call_validate_generated_code_quality ==
    /\ pc = "quality"
    /\ \E code \in QualityTexts, filename \in {FileIntegration, FileDemo},
          system_name \in SystemNames :
           LET arch == [system_name |-> system_name, modules |-> <<>>]
           IN returned' = [by |-> "_validate_generated_code_quality",
                           code |-> code,
                           filename |-> filename,
                           architecture |-> arch,
                           issues |-> _validate_generated_code_quality(code, filename, arch)]
    /\ pc' = "quality_checked"
    /\ UNCHANGED <<planner_result, error, architecture, attempt_log, removed_modules, module_state, outputs,
                   created_modules, next_module, attempt, module_result,
                   previous_result, validation_issues, history, outcome,
                   assembly_locals>>

NextQuality == call_validate_generated_code_quality

SpecQuality == InitQuality /\ [][NextQuality]_vars

-----------------------------------------------------------------------------
(* ModuleCreationState driven by arbitrary calls of its two transitions *)

\* architectures that differ in their module names only
NameOnlyArchitectures ==
    {arch \in Architectures :
        \A i \in 1..Len(arch.modules) :
            arch.modules[i].dependencies = <<>> /\ arch.modules[i].priority = 1}

InitState ==
    /\ pc = "state"
    /\ planner_result = None
    /\ removed_modules = <<>>
    /\ error = None
    /\ architecture \in NameOnlyArchitectures
    /\ module_state = create_module_state(architecture)
    /\ module_interfaces = EmptyDict
    /\ files = EmptyDict
    /\ created_modules = EmptyDict
    /\ next_module = Unbound
    /\ attempt = UnboundNumber
    /\ module_result = Unbound
    /\ previous_result = Unbound
    /\ validation_issues = UnboundIssues
    /\ attempt_log = <<>>
    /\ iterations = 0
    /\ generation_order = <<>>
    /\ outcome = "none"
    /\ integration_result = UnboundText
    /\ assembly_result = None
    /\ assembly_log = <<>>
    /\ returned = Unbound

call_mark_module_in_progress(module_name) ==
    /\ pc = "state"
    /\ module_state' = mark_module_in_progress(module_state, module_name)
    /\ UNCHANGED <<pc, planner_result, removed_modules, error, architecture, outputs,
                   created_modules,
                   next_module, retry_locals, history, outcome>>
    /\ UNCHANGED <<assembly_locals, returned>>

call_mark_module_completed(module_name) ==
    /\ pc = "state"
    /\ module_state' = mark_module_completed(module_state, module_name)
    /\ UNCHANGED <<pc, planner_result, removed_modules, error, architecture, outputs,
                   created_modules,
                   next_module, retry_locals, history, outcome>>
    /\ UNCHANGED <<assembly_locals, returned>>

\* mutant: the query marks the module it returns
call_get_next_module_marking ==
    /\ pc = "state"
    /\ returned' = [by |-> "get_next_module", value |-> get_next_module(module_state)]
    /\ module_state' = IF get_next_module(module_state) = None
                           THEN module_state
                           ELSE mark_module_in_progress(module_state,
                                                        get_next_module(module_state).name)
    /\ UNCHANGED <<pc, planner_result, removed_modules, error, architecture, outputs,
                   created_modules, next_module, retry_locals, history, outcome,
                   assembly_locals>>

\* get_next_module assigns to no attribute of the state
call_get_next_module ==
    /\ pc = "state"
    /\ returned' = [by |-> "get_next_module", value |-> get_next_module(module_state)]
    /\ module_state' = module_state
    /\ UNCHANGED <<pc, planner_result, removed_modules, error, architecture, outputs,
                   created_modules, next_module, retry_locals, history, outcome,
                   assembly_locals>>

\* is_system_complete assigns to no attribute of the state
call_is_system_complete ==
    /\ pc = "state"
    /\ returned' = [by |-> "is_system_complete", flag |-> is_system_complete(module_state)]
    /\ module_state' = module_state
    /\ UNCHANGED <<pc, planner_result, removed_modules, error, architecture, outputs,
                   created_modules, next_module, retry_locals, history, outcome,
                   assembly_locals>>

NextState ==
    \/ \E module_name \in ModuleNames :
           \/ call_mark_module_in_progress(module_name)
           \/ call_mark_module_completed(module_name)
    \/ call_get_next_module
    \/ call_is_system_complete

SpecState == InitState /\ [][NextState]_vars

-----------------------------------------------------------------------------
(* mark_module_in_progress(n), mark_module_completed(n) on a fresh state,
   then repeated calls for the same n *)

InitRepeat ==
    /\ pc = "fresh"
    /\ planner_result = None
    /\ removed_modules = <<>>
    /\ error = None
    /\ architecture \in {arch \in Architectures : arch.modules # <<>>}
    /\ module_state = create_module_state(architecture)
    /\ module_interfaces = EmptyDict
    /\ files = EmptyDict
    /\ created_modules = EmptyDict
    /\ next_module \in Range(architecture.modules)
    /\ attempt = UnboundNumber
    /\ module_result = Unbound
    /\ previous_result = Unbound
    /\ validation_issues = UnboundIssues
    /\ attempt_log = <<>>
    /\ iterations = 0
    /\ generation_order = <<>>
    /\ outcome = "none"
    /\ integration_result = UnboundText
    /\ assembly_result = None
    /\ assembly_log = <<>>
    /\ returned = Unbound

state_only == <<planner_result, removed_modules, error, architecture, outputs,
                created_modules, next_module, retry_locals, history, outcome,
                assembly_locals, returned>>

first_mark_module_in_progress ==
    /\ pc = "fresh"
    /\ module_state' = mark_module_in_progress(module_state, next_module.name)
    /\ pc' = "marked"
    /\ UNCHANGED state_only

first_mark_module_completed ==
    /\ pc = "marked"
    /\ module_state' = mark_module_completed(module_state, next_module.name)
    /\ pc' = "settled"
    /\ UNCHANGED state_only

repeat_mark_module_in_progress ==
    /\ pc = "settled"
    /\ module_state' = mark_module_in_progress(module_state, next_module.name)
    /\ pc' = pc
    /\ UNCHANGED state_only

repeat_mark_module_completed ==
    /\ pc = "settled"
    /\ module_state' = mark_module_completed(module_state, next_module.name)
    /\ pc' = pc
    /\ UNCHANGED state_only

NextRepeat ==
    \/ first_mark_module_in_progress
    \/ first_mark_module_completed
    \/ repeat_mark_module_in_progress
    \/ repeat_mark_module_completed

SpecRepeat == InitRepeat /\ [][NextRepeat]_vars

-----------------------------------------------------------------------------
(* _validate_module_interface called on a module specification and an
   extracted interface *)

MaxMethods == 2

ClassQux == <<"Q", "u", "x">>
ClassNames == {ClassFoo, ClassQux}

\* lists of at most MaxMethods elements of S
ListsOf(S) == UNION {[1..n -> S] : n \in 0..MaxMethods}

ValidatorModuleSpecs ==
    [name : {NameDb}, class_name : ClassNames, dependencies : {<<>>},
     interfaces : ListsOf({MethodBar, MethodBaz}), priority : {1}]

MethodSignatures == {Signature(MethodBar, <<ArgX>>), Signature(MethodBaz, <<>>)}

\* the interfaces _extract_module_interface can return for sources that
\* define some of the classes, each with at most MaxMethods public methods
ExtractedInterfaces ==
    {[classes |-> classes, functions |-> <<>>] :
        classes \in UNION {[D -> ListsOf(MethodSignatures)] : D \in SUBSET ClassNames}}

InitValidator ==
    /\ pc = "validator"
    /\ planner_result = None
    /\ removed_modules = <<>>
    /\ error = None
    /\ architecture = None
    /\ module_state = NoState
    /\ module_interfaces = EmptyDict
    /\ files = EmptyDict
    /\ created_modules = EmptyDict
    /\ next_module \in ValidatorModuleSpecs
    /\ attempt = 0
    /\ module_result \in {[interface |-> interface] : interface \in ExtractedInterfaces}
    /\ previous_result = Unbound
    /\ validation_issues = UnboundIssues
    /\ attempt_log = <<>>
    /\ iterations = 0
    /\ generation_order = <<>>
    /\ outcome = "none"
    /\ integration_result = UnboundText
    /\ assembly_result = None
    /\ assembly_log = <<>>
    /\ returned = Unbound

\* validation_issues = self._validate_module_interface(module_spec, module_result["interface"])
call_validate_module_interface ==
    /\ pc = "validator"
    /\ validation_issues' = _validate_module_interface(next_module, module_result.interface)
    /\ pc' = "validated"
    /\ UNCHANGED <<planner_result, removed_modules, error, architecture, module_state,
                   outputs, created_modules, next_module, attempt, module_result,
                   previous_result, attempt_log, history, outcome, assembly_locals,
                   returned>>

NextValidator == call_validate_module_interface

SpecValidator == InitValidator /\ [][NextValidator]_vars

-----------------------------------------------------------------------------
(* One attempt on a generated source: _extract_module_interface on the text,
   then _validate_module_interface on what was extracted *)

\* module specifications whose required names may include __init__
ContractModuleSpecs ==
    [name : {NameDb}, class_name : ClassNames, dependencies : {<<>>},
     interfaces : ListsOf({MethodBar, MethodBaz, InitDef.name}), priority : {1}]

\* sources with one class that defines some of __init__, bar, baz
ContractTexts ==
    {SourceText(<<ClassDef(c, SelectSeq(<<InitDef, BarDef, BazDef>>,
                                        LAMBDA d : d.name \in names))>>) :
        c \in ClassNames, names \in SUBSET {InitDef.name, MethodBar, MethodBaz}}

InitContract ==
    /\ pc = "contract"
    /\ planner_result = None
    /\ removed_modules = <<>>
    /\ error = None
    /\ architecture = None
    /\ module_state = NoState
    /\ module_interfaces = EmptyDict
    /\ files = EmptyDict
    /\ created_modules = EmptyDict
    /\ next_module \in ContractModuleSpecs
    /\ attempt = 0
    /\ module_result = Unbound
    /\ previous_result = Unbound
    /\ validation_issues = UnboundIssues
    /\ attempt_log = <<>>
    /\ iterations = 0
    /\ generation_order = <<>>
    /\ outcome = "none"
    /\ integration_result = UnboundText
    /\ assembly_result = None
    /\ assembly_log = <<>>
    /\ returned = Unbound

\* interface = self._extract_module_interface(module_spec.name, str(result))
\* validation_issues = self._validate_module_interface(module_spec, module_result["interface"])
extract_and_validate ==
    /\ pc = "contract"
    /\ \E code \in ContractTexts :
           LET interface == _extract_module_interface(next_module.name, code)
           IN /\ module_result' = [code |-> code, interface |-> interface]
              /\ validation_issues' = _validate_module_interface(next_module, interface)
    /\ pc' = "contract_checked"
    /\ UNCHANGED <<planner_result, removed_modules, error, architecture, module_state,
                   outputs, created_modules, next_module, attempt,
                   previous_result, attempt_log, history, outcome, assembly_locals,
                   returned>>

NextContract == extract_and_validate

SpecContract == InitContract /\ [][NextContract]_vars

-----------------------------------------------------------------------------
(* Vocabulary of the properties *)

HasState == module_state # NoState

Pending == Range(module_state.pending_modules)
InProgress == Range(module_state.in_progress_modules)
Completed == Range(module_state.completed_modules)

NoDuplicates(s) == \A i, j \in 1..Len(s) : s[i] = s[j] => i = j

UniqueNames(arch) ==
    \A i, j \in 1..Len(arch.modules) :
        arch.modules[i].name = arch.modules[j].name => i = j

NoUiName(arch) == \A n \in ModuleNamesOf(arch) : ~is_ui_name(n)

\* the dependency graph over names: n -> d when a module named n declares d
DependenciesOf(arch, n) ==
    UNION {Range(arch.modules[i].dependencies) :
              i \in {k \in 1..Len(arch.modules) : arch.modules[k].name = n}}

RECURSIVE Closure(_, _, _)
Closure(arch, frontier, seen) ==
    IF frontier \subseteq seen THEN seen
    ELSE Closure(arch,
                 UNION {DependenciesOf(arch, n) : n \in frontier},
                 seen \cup frontier)

\* the names reached from n by one or more dependency edges
DependsOnTransitively(arch, n) == Closure(arch, DependenciesOf(arch, n), {})

OnCycle(arch, n) == n \in DependsOnTransitively(arch, n)
IsDangling(arch, n) == n \notin ModuleNamesOf(arch)

\* names on a cycle, depending on a missing name, or depending on such a name
BlockedNames(arch) ==
    {n \in ModuleNamesOf(arch) :
        \E x \in {n} \cup DependsOnTransitively(arch, n) :
            OnCycle(arch, x) \/ IsDangling(arch, x)}

Generated == {generation_order[i].name : i \in 1..Len(generation_order)}

TimesGenerated(n) ==
    Cardinality({i \in 1..Len(generation_order) : generation_order[i].name = n})

InRetryController == pc \in {"generate", "validate", "finish"}

InAssembly ==
    pc \in {"integration", "integration_validate", "tests", "demo", "readme",
            "validate_dependencies", "assembled"}

\* validation of a text, as the retry controller performs it
IssuesOf(module_spec, text) ==
    _validate_module_interface(module_spec,
                               _extract_module_interface(module_spec.name, text))

-----------------------------------------------------------------------------
(* C1 - C10 *)

\* C1: after any sequence of mark_module_in_progress / mark_module_completed
\* calls on a state built by create_module_state, every module name is in
\* exactly one of the three lists, no list holds a duplicate, and the union
\* of the lists is the architecture's set of module names. (Stated for
\* architectures whose module names are unique, as the data model requires.)
C1_Partition ==
    (HasState /\ UniqueNames(module_state.architecture)) =>
        /\ \A n \in ModuleNamesOf(module_state.architecture) :
               Cardinality({l \in {"p", "i", "c"} :
                               \/ l = "p" /\ n \in Pending
                               \/ l = "i" /\ n \in InProgress
                               \/ l = "c" /\ n \in Completed}) = 1
        /\ NoDuplicates(module_state.pending_modules)
        /\ NoDuplicates(module_state.in_progress_modules)
        /\ NoDuplicates(module_state.completed_modules)
        /\ Pending \cup InProgress \cup Completed = ModuleNamesOf(module_state.architecture)

C2_Schedulable(arch) ==
    UniqueNames(arch) /\ NoUiName(arch) /\ BlockedNames(arch) = {}

C2_Final ==
    /\ pc = "modules_returned"
    /\ is_system_complete(module_state)
    /\ Completed = ModuleNamesOf(architecture)
    /\ module_state.pending_modules = <<>>
    /\ module_state.in_progress_modules = <<>>
    /\ \A n \in ModuleNamesOf(architecture) : TimesGenerated(n) = 1
    /\ Len(generation_order) = Len(architecture.modules)

\* C2: for an architecture with unique names, no forbidden name and an acyclic
\* dependency graph over existing names, create_modules eventually returns
\* with every name completed, nothing pending or in progress, and every
\* module handed to the generator exactly once.
C2_EventuallyComplete ==
    (pc = "create_modules" /\ C2_Schedulable(architecture)) ~> C2_Final

C2_Witness ==
    /\ C2_Final
    /\ Len(architecture.modules) = MaxModules
    /\ \E i \in 1..Len(architecture.modules) : architecture.modules[i].dependencies # <<>>

\* C3: when a module is marked in progress, and whenever a generation call is
\* made for it, all its declared dependencies are completed; no module is
\* handed to the generator before one of its dependencies.
C3_DependenciesFirst ==
    /\ InRetryController =>
           \A d \in Range(next_module.dependencies) : d \in Completed
    /\ \A i \in 1..Len(generation_order) :
           \A d \in Range(generation_order[i].dependencies) :
               /\ d \in Completed
               /\ \A j \in 1..Len(generation_order) :
                      generation_order[j].name = d => j < i

C3_Witness ==
    /\ pc = "generate"
    /\ attempt = 0
    /\ next_module.dependencies # <<>>
    /\ next_module.name \in InProgress

C4_Eligible(m) ==
    /\ m.name \notin Completed
    /\ m.name \notin InProgress
    /\ Range(m.dependencies) \subseteq Completed

\* C4: get_next_module returns a module that is neither completed nor in
\* progress, whose dependencies are all completed, and of least priority
\* among such modules; it returns None exactly when there is no such module.
C4_SelectionRule ==
    HasState =>
        LET r == get_next_module(module_state)
            modules == Range(module_state.architecture.modules)
        IN /\ (r = None) <=> ~(\E m \in modules : C4_Eligible(m))
           /\ r # None =>
                  /\ r \in modules
                  /\ C4_Eligible(r)
                  /\ \A m \in modules : C4_Eligible(m) => r.priority <= m.priority

C4_Witness ==
    /\ pc = "loop"
    /\ Len(architecture.modules) = 2
    /\ C4_Eligible(architecture.modules[1])
    /\ C4_Eligible(architecture.modules[2])
    /\ architecture.modules[2].priority < architecture.modules[1].priority
    /\ get_next_module(module_state) = architecture.modules[2]

\* C5: when get_next_module returns None while the system is not complete,
\* create_modules does not return a normal result and the flow does not enter
\* assemble_system.
C5_DeadlockIsFatal ==
    (HasState /\ next_module = None /\ ~is_system_complete(module_state))
        => (outcome # "returned" /\ ~InAssembly)

C6_LoopEnded == pc \in {"raised", "modules_returned"}

C6_BodyBound ==
    HasState =>
        /\ iterations <= Len(architecture.modules) + 1
        /\ NoDuplicates(module_state.completed_modules)
        /\ iterations = Len(module_state.completed_modules)
                          + (IF InRetryController \/ next_module = None THEN 1 ELSE 0)

\* C6: the loop of create_modules terminates for every architecture: an entry
\* of the loop body either leaves the loop or adds a new name to
\* completed_modules, so the body is entered at most |modules| + 1 times.
C6_Terminates == []C6_BodyBound /\ <>C6_LoopEnded

C6_Witness ==
    /\ pc = "modules_returned"
    /\ next_module = None
    /\ iterations = Len(architecture.modules)
    /\ Len(architecture.modules) = MaxModules
    /\ BlockedNames(architecture) # {}
    /\ Completed # {}

C7_NeverStarted ==
    \A n \in BlockedNames(module_state.architecture) :
        n \notin InProgress /\ n \notin Completed /\ n \notin Generated

C7_DeadlockFound ==
    /\ pc = "modules_returned"
    /\ next_module = None
    /\ Completed \subseteq ModuleNamesOf(architecture)
    /\ Completed # ModuleNamesOf(architecture)

C7_Covered(arch) == UniqueNames(arch) /\ NoUiName(arch)

\* C7 as stated: for any architecture with a dependency cycle or a dependency
\* on a missing name, no module that is on the cycle, or depends on it or on
\* the missing name, is ever marked in progress, generated or completed.
C7_BlockedNeverStarted == HasState => C7_NeverStarted

\* C7 as amended: the same, and get_next_module eventually returns None with
\* completed_modules a strict subset of the names, for architectures whose
\* module names are unique and none of which is a forbidden name.
C7_UniqueNamesDeadlock ==
    /\ [](HasState /\ C7_Covered(architecture) => C7_NeverStarted)
    /\ (pc = "create_modules" /\ C7_Covered(architecture)
            /\ BlockedNames(architecture) # {}) ~> C7_DeadlockFound

C7_Witness ==
    /\ C7_DeadlockFound
    /\ C7_Covered(architecture)
    /\ Len(architecture.modules) = 2
    /\ architecture.modules[1].dependencies = <<architecture.modules[2].name>>
    /\ architecture.modules[2].dependencies = <<architecture.modules[1].name>>

C8_Passes(i) == IssuesOf(next_module, attempt_log[i].text) = <<>>

\* C8: if attempt k is the first whose extracted interface passes validation,
\* the retry controller returns the artifact of attempt k at once and the
\* backend has been invoked exactly k times for the module: once by
\* _create_single_module and k - 1 times by _retry_module_with_feedback.
C8_FirstPassReturned ==
    InRetryController =>
        /\ \A i \in 1..Len(attempt_log) :
               /\ C8_Passes(i) => i = Len(attempt_log)
               /\ attempt_log[i].by = (IF i = 1 THEN "_create_single_module"
                                        ELSE "_retry_module_with_feedback")
        /\ (pc = "finish" /\ C8_Passes(Len(attempt_log))) =>
               /\ Len(attempt_log) = attempt + 1
               /\ Len(attempt_log) <= max_retries + 1
               /\ module_result.code = attempt_log[Len(attempt_log)].text
               /\ module_result.interface =
                      _extract_module_interface(next_module.name, module_result.code)
        /\ (pc = "generate" /\ attempt_log # <<>>) => ~C8_Passes(Len(attempt_log))

C8_Witness ==
    /\ pc = "finish"
    /\ Len(attempt_log) = 2
    /\ ~C8_Passes(1)
    /\ C8_Passes(2)
    /\ module_result.code = attempt_log[2].text

\* C9: if every attempt fails validation, the retry controller invokes the
\* backend exactly max_retries + 1 times, never more, raises nothing and
\* returns the artifact of the last attempt.
C9_ExhaustedReturnsLast ==
    InRetryController =>
        /\ Len(attempt_log) <= max_retries + 1
        /\ (pc = "finish" /\ \A i \in 1..Len(attempt_log) : ~C8_Passes(i)) =>
               /\ Len(attempt_log) = max_retries + 1
               /\ module_result.code = attempt_log[Len(attempt_log)].text
               /\ files[next_module.name] = attempt_log[Len(attempt_log)].text
               /\ outcome = "none"

C9_Witness ==
    /\ pc = "finish"
    /\ Len(attempt_log) = max_retries + 1
    /\ \A i \in 1..Len(attempt_log) : ~C8_Passes(i)
    /\ attempt_log[Len(attempt_log)].text # attempt_log[Len(attempt_log) - 1].text
    /\ module_result.code = attempt_log[Len(attempt_log)].text

\* C10: the record the retry controller returns carries the validation issues
\* of the attempt it returns: none when that attempt passed, the attempt's
\* non-empty issue list when all attempts were exhausted.
C10_ReturnedIssues ==
    pc = "finish" =>
        module_result.validation_issues = IssuesOf(next_module, module_result.code)

-----------------------------------------------------------------------------
(* C11 - C20 *)

\* C11: when the extracted interface has no entry for module_spec.class_name,
\* _validate_module_interface returns exactly one issue, which names the
\* missing class, and no missing-method issue, whatever the required methods.
C11_MissingClass ==
    (pc = "validated"
         /\ next_module.class_name \notin DOMAIN module_result.interface.classes) =>
        /\ Len(validation_issues) = 1
        /\ validation_issues[1] = MainClassIssue(next_module.class_name)
        /\ \A i \in 1..Len(validation_issues) :
               validation_issues[i][1] # "Required method not implemented"

C11_Witness ==
    /\ pc = "validated"
    /\ next_module.class_name = ClassFoo
    /\ next_module.interfaces = <<MethodBar, MethodBaz>>
    /\ DOMAIN module_result.interface.classes = {ClassQux}
    /\ module_result.interface.classes[ClassQux] # <<>>
    /\ validation_issues = <<MainClassIssue(ClassFoo)>>

\* the method names of the class: the text of each signature before its "("
C12_MethodNames ==
    LET class_methods == module_result.interface.classes[next_module.class_name]
    IN {SplitFirst(class_methods[i], "(") : i \in 1..Len(class_methods)}

\* the positions in module_spec.interfaces of the methods the class lacks
C12_MissingAt ==
    {i \in 1..Len(next_module.interfaces) : next_module.interfaces[i] \notin C12_MethodNames}

\* the k-th smallest of them
C12_Kth(k) ==
    CHOOSE i \in C12_MissingAt : Cardinality({j \in C12_MissingAt : j <= i}) = k

\* C12: when the class is present, _validate_module_interface returns one
\* issue for each entry of module_spec.interfaces that is not a method name of
\* the class, in declared order, and nothing else; the result is empty exactly
\* when the class is present and every required method is among its methods.
C12_MissingMethods ==
    pc = "validated" =>
        LET present == next_module.class_name \in DOMAIN module_result.interface.classes
        IN /\ present =>
                  /\ Len(validation_issues) = Cardinality(C12_MissingAt)
                  /\ \A k \in 1..Len(validation_issues) :
                         validation_issues[k] =
                             MethodIssue(next_module.interfaces[C12_Kth(k)],
                                         next_module.class_name)
           /\ (validation_issues = <<>>) <=>
                  (present /\ \A i \in 1..Len(next_module.interfaces) :
                                  next_module.interfaces[i] \in C12_MethodNames)

C12_Witness ==
    /\ pc = "validated"
    /\ next_module.class_name = ClassFoo
    /\ next_module.interfaces = <<MethodBar, MethodBaz>>
    /\ ClassFoo \in DOMAIN module_result.interface.classes
    /\ module_result.interface.classes[ClassFoo] = <<Signature(MethodBar, <<ArgX>>)>>
    /\ validation_issues = <<MethodIssue(MethodBaz, ClassFoo)>>

\* C13: after mark_module_in_progress(n) and mark_module_completed(n) on a
\* fresh state, however often either call is repeated for n, n is exactly
\* once in completed_modules and neither pending nor in progress. (Stated for
\* architectures whose module names are unique.)
C13_RepeatKeepsCompleted ==
    (pc = "settled" /\ UniqueNames(architecture)) =>
        /\ Cardinality({i \in 1..Len(module_state.completed_modules) :
                           module_state.completed_modules[i] = next_module.name}) = 1
        /\ next_module.name \notin Pending
        /\ next_module.name \notin InProgress

C14_Lists(s) == <<s.pending_modules, s.in_progress_modules, s.completed_modules>>

C14_IdempotentFor(s, n) ==
    /\ C14_Lists(mark_module_in_progress(mark_module_in_progress(s, n), n))
           = C14_Lists(mark_module_in_progress(s, n))
    /\ C14_Lists(mark_module_completed(mark_module_completed(s, n), n))
           = C14_Lists(mark_module_completed(s, n))
    /\ n \notin Range(mark_module_in_progress(s, n).pending_modules)
    /\ n \notin Range(mark_module_completed(s, n).in_progress_modules)

\* C14 as stated: in every state and for every name n, a second
\* mark_module_in_progress(n) changes none of the three lists, likewise for
\* mark_module_completed(n); mark_module_in_progress removes n from
\* pending_modules and mark_module_completed removes n from in_progress_modules.
C14_Idempotent ==
    HasState => \A n \in ModuleNames : C14_IdempotentFor(module_state, n)

\* C14 as amended: the same, for the states of architectures whose module
\* names are unique.
C14_IdempotentUniqueNames ==
    (HasState /\ UniqueNames(module_state.architecture)) =>
        \A n \in ModuleNames : C14_IdempotentFor(module_state, n)

C14_Witness ==
    /\ pc = "state"
    /\ UniqueNames(module_state.architecture)
    /\ Len(module_state.architecture.modules) = 2
    /\ \E n, m \in ModuleNamesOf(module_state.architecture) :
           /\ n \in InProgress /\ n \notin Pending
           /\ mark_module_in_progress(module_state, n) = module_state
           /\ m \in Completed /\ m \notin InProgress
           /\ mark_module_completed(module_state, m) = module_state

C15_Total(s) ==
    Len(s.pending_modules) + Len(s.in_progress_modules) + Len(s.completed_modules)

C15_Step ==
    (HasState /\ HasState') =>
        /\ \A n \in ModuleNames :
               /\ n \in Pending' => n \in Pending
               /\ n \in Completed => (n \in Completed' /\ n \notin InProgress')
               /\ (n \in InProgress' /\ n \notin InProgress) => n \in Pending
               /\ (n \in Completed' /\ n \notin Completed) => n \in InProgress
        /\ C15_Total(module_state') >= C15_Total(module_state)

C16_Step ==
    (returned' # returned) =>
        /\ module_state' = module_state
        /\ architecture' = architecture
        /\ returned'.by = "get_next_module" =>
               returned'.value = get_next_module(module_state')
        /\ returned'.by = "is_system_complete" =>
               returned'.flag = is_system_complete(module_state')

\* C16: a call of get_next_module or of is_system_complete changes none of the
\* three lists nor the architecture, and what get_next_module returns is
\* determined by the state, so that a second call with no transition in
\* between returns the same module.
C16_PureQueries == [][C16_Step]_vars

C16_Witness ==
    /\ pc = "state"
    /\ returned # Unbound
    /\ returned.by = "get_next_module"
    /\ returned.value # None
    /\ returned.value.name \in Pending
    /\ InProgress # {}
    /\ returned.value = get_next_module(module_state)

\* C17: whenever a generation call of the assembly has been issued, every
\* module of the architecture is in completed_modules and none is pending or
\* in progress.
C17_AssemblyAfterCompletion ==
    assembly_log # <<>> =>
        /\ Completed = ModuleNamesOf(architecture)
        /\ module_state.pending_modules = <<>>
        /\ module_state.in_progress_modules = <<>>

C18_Rank(by) ==
    CASE by = "_create_system_integration" -> 1
      [] by = "_retry_integration_with_feedback" -> 2
      [] by = "_create_system_tests" -> 3
      [] by = "_create_demo_application" -> 4
      [] by = "_create_readme_documentation" -> 5

C18_Made(by) == \E i \in 1..Len(assembly_log) : assembly_log[i].by = by

C18_IntegrationFinished ==
    LET attempts == {i \in 1..Len(assembly_log) : C18_Rank(assembly_log[i].by) <= 2}
        last == assembly_log[Cardinality(attempts)]
    IN /\ attempts # {}
       /\ \/ _validate_generated_code_quality(last.text, FileIntegration, architecture) = <<>>
          \/ Cardinality(attempts) = integration_max_retries + 1

\* C18: the assembly generates integration, tests, demo and documentation in
\* this order, each once the one before it is finished (the integration with
\* its retry), the post-hoc dependency check runs after all four, and the
\* assembly starts only when planning is over and create_modules has returned.
C18_AssemblyOrder ==
    /\ \A i, j \in 1..Len(assembly_log) :
           i < j => C18_Rank(assembly_log[i].by) < C18_Rank(assembly_log[j].by)
    /\ assembly_log # <<>> => assembly_log[1].by = "_create_system_integration"
    /\ C18_Made("_create_system_tests") => C18_IntegrationFinished
    /\ C18_Made("_create_demo_application") => C18_Made("_create_system_tests")
    /\ C18_Made("_create_readme_documentation") => C18_Made("_create_demo_application")
    /\ assembly_result # None => C18_Made("_create_readme_documentation")
    /\ (InAssembly \/ assembly_log # <<>>) =>
           (planner_result = None /\ HasState /\ outcome = "returned")
    /\ (HasState \/ generation_order # <<>>) => planner_result = None

C18_Witness ==
    /\ pc = "assembled"
    /\ assembly_result # None
    /\ Len(assembly_log) = 5
    /\ assembly_log[2].by = "_retry_integration_with_feedback"
    /\ generation_order # <<>>

\* C19: a module with a reserved name is absent from the architecture
\* plan_architecture returns and from the pending_modules create_module_state
\* builds, get_next_module never returns it and no generation call is issued
\* for it.
C19_ReservedNamesExcluded ==
    /\ pc = "start" =>
           LET validated_architecture == _validate_and_clean_architecture(planner_result)
           IN /\ NoUiName(validated_architecture)
              /\ \A n \in Range(create_module_state(validated_architecture).pending_modules) :
                     ~is_ui_name(n)
    /\ HasState =>
           /\ NoUiName(architecture)
           /\ \A n \in Pending \cup InProgress \cup Completed \cup Generated : ~is_ui_name(n)
           /\ (next_module # Unbound /\ next_module # None) => ~is_ui_name(next_module.name)
           /\ \A n \in Range(removed_modules) :
                  /\ is_ui_name(n)
                  /\ n \notin ModuleNamesOf(architecture)
                  /\ n \notin Generated
                  /\ n \notin DOMAIN files
                  /\ n \notin DOMAIN module_interfaces

C19_Witness ==
    /\ pc = "finish"
    /\ removed_modules = <<NameGui>>
    /\ Generated # {}
    /\ next_module.dependencies = <<>>

\* C20: when the architecture handed to create_modules has a module with a
\* forbidden name, create_modules raises an error that names these modules,
\* no generation call is issued, and the three lists of the state and the
\* interface registry are as they were.
C20_PolicyHardStop ==
    (HasState /\ pc # "create_modules" /\ ~NoUiName(architecture)) =>
        LET Ui(m) == is_ui_name(m.name)
            offending == SelectSeq(architecture.modules, Ui)
        IN /\ pc = "raised"
           /\ outcome = "raised"
           /\ error # None
           /\ error.type = "ValueError"
           /\ error.names = [i \in 1..Len(offending) |-> offending[i].name]
           /\ generation_order = <<>>
           /\ attempt_log = <<>>
           /\ files = EmptyDict
           /\ module_interfaces = EmptyDict
           /\ module_state = create_module_state(architecture)

C20_Witness ==
    /\ pc = "raised"
    /\ Len(architecture.modules) = 2
    /\ ~is_ui_name(architecture.modules[1].name)
    /\ is_ui_name(architecture.modules[2].name)
    /\ error # None
    /\ error.names = <<architecture.modules[2].name>>

-----------------------------------------------------------------------------
(* C21 - C30 *)

\* the modules of the state's architecture, by forbidden name or not
C21_Reserved == {n \in ModuleNamesOf(module_state.architecture) : is_ui_name(n)}

\* C21: a module with a forbidden name that the scheduling loop of
\* create_modules meets is skipped: it is marked completed, no generation
\* call is made for it (it is never in progress, never handed to the retry
\* controller, has no file, no registry entry and no result), and the loop
\* goes on: when it has ended, every other module that is not blocked has
\* been generated and completed
C21_SkippedWithoutGeneration ==
    HasState =>
        /\ \A n \in C21_Reserved :
              /\ n \notin InProgress
              /\ n \notin Generated
              /\ n \notin DOMAIN files
              /\ n \notin DOMAIN module_interfaces
              /\ n \notin DOMAIN created_modules
        /\ (pc = "loop" /\ next_module # Unbound /\ next_module # None
                /\ is_ui_name(next_module.name))
              => next_module.name \in Completed
        /\ (pc = "modules_returned" /\ UniqueNames(module_state.architecture))
              => \A n \in ModuleNamesOf(module_state.architecture)
                         \ BlockedNames(module_state.architecture) :
                     /\ n \in Completed
                     /\ n \in C21_Reserved \/ n \in Generated

\* a run in which the loop skipped a forbidden name and then generated a
\* module that depends on it
C21_Witness ==
    /\ pc = "modules_returned"
    /\ NameGui \in Completed
    /\ NameGui \notin Generated
    /\ \E i \in 1..Len(generation_order) :
          /\ generation_order[i].dependencies = <<NameGui>>
          /\ generation_order[i].name \in Completed

\* the modules of the architecture whose result failed validation
C22_Failed(n) ==
    \E i \in 1..Len(generation_order) :
        /\ generation_order[i].name = n
        /\ IssuesOf(generation_order[i], created_modules[n].code) # <<>>

\* C22: a failed contract validation never ends the run: the only error the
\* module creation raises is the policy error before the loop; every module
\* that left the retry controller is marked completed, whether or not its
\* last attempt passed; and when the loop has ended, every module whose
\* dependencies are all completed (also the failed ones) has been generated
C22_ValidationNeverFatal ==
    HasState =>
        /\ outcome = "raised" => (pc = "raised" /\ error # None /\ generation_order = <<>>)
        /\ InRetryController => (error = None /\ outcome = "none")
        /\ \A n \in DOMAIN created_modules : n \in Completed
        /\ pc = "modules_returned" =>
              \A i \in 1..Len(architecture.modules) :
                  LET m == architecture.modules[i]
                  IN Range(m.dependencies) \subseteq Completed
                        => (m.name \in Completed /\ m.name \in Generated)

\* a completed module whose every attempt failed validation, and a module
\* depending on it that was generated after it
C22_Witness ==
    /\ pc = "modules_returned"
    /\ outcome = "returned"
    /\ \E n \in DOMAIN created_modules :
          /\ C22_Failed(n)
          /\ n \in Completed
          /\ \E i \in 1..Len(generation_order) :
                /\ generation_order[i].dependencies = <<n>>
                /\ generation_order[i].name # n
                /\ generation_order[i].name \in Completed

\* C23: every attempt writes its text to the file of the module before it is
\* validated and overwrites what the attempt before wrote: once a first
\* attempt was made, the file named after the module holds the text of the
\* most recent attempt, while the attempt waits for validation, between a
\* failed validation and the retry, and after the retry controller returned
C23_FileHoldsLastAttempt ==
    /\ (InRetryController /\ attempt_log # <<>>) =>
          /\ next_module.name \in DOMAIN files
          /\ files[next_module.name] = attempt_log[Len(attempt_log)].text
    /\ pc = "validate" =>
          /\ Len(attempt_log) = attempt + 1
          /\ module_result.code = files[next_module.name]
    /\ \A n \in DOMAIN created_modules :
          /\ n \in DOMAIN files
          /\ files[n] = created_modules[n].code

\* between the second failed validation and the last retry the file holds
\* the second text, which differs from the first
C23_Witness ==
    /\ pc = "generate"
    /\ attempt = 2
    /\ Len(attempt_log) = 2
    /\ attempt_log[1].text # attempt_log[2].text
    /\ files[next_module.name] = attempt_log[2].text

\* the registry entry of M is written by this step
C24_Written(M) ==
    \/ (M \in DOMAIN module_interfaces) # (M \in DOMAIN module_interfaces')
    \/ /\ M \in DOMAIN module_interfaces
       /\ M \in DOMAIN module_interfaces'
       /\ module_interfaces'[M] # module_interfaces[M]

C24_Step ==
    \A M \in ModuleNames :
        /\ C24_Written(M) =>
              (pc = "generate" /\ next_module.name = M /\ pc' = "validate")
        /\ (HasState /\ M \in Completed) => ~C24_Written(M)
        /\ InAssembly => ~C24_Written(M)

\* C24: the registry entry of a module M is written only by the attempts
\* made for M: it does not change while another module is generated,
\* validated or retried, nor during the assembly, nor after M was marked
\* completed
C24_RegistryFrame == [][C24_Step]_vars

\* the assembly has returned with two entries in the registry, the second
\* module having been retried
C24_Witness ==
    /\ pc = "assembled"
    /\ Cardinality(DOMAIN module_interfaces) = 2
    /\ Len(generation_order) = 2
    /\ IssuesOf(generation_order[2], files[generation_order[2].name]) # <<>>

\* C25: when a generation request, initial or retry, is built for a module,
\* every declared dependency has a registry entry, and that entry is the
\* interface extracted from the text of the dependency's last attempt, the
\* text its file holds; no request made shows a dependency whose interface
\* is not yet available
C25_DependencyInterfacesAvailable ==
    /\ pc = "generate" =>
          \A i \in 1..Len(next_module.dependencies) :
              LET D == next_module.dependencies[i]
              IN /\ D \in DOMAIN module_interfaces
                 /\ D \in DOMAIN created_modules
                 /\ module_interfaces[D] = created_modules[D].interface
                 /\ module_interfaces[D] = _extract_module_interface(D, files[D])
                 /\ files[D] = created_modules[D].code
    /\ \A k \in 1..Len(attempt_log) :
          LET info == attempt_log[k].request.dependency_info
          IN /\ Len(info) = Len(next_module.dependencies)
             /\ \A i \in 1..Len(info) :
                   /\ info[i].module = next_module.dependencies[i]
                   /\ info[i].available
                   /\ info[i].classes = module_interfaces[info[i].module].classes
                   /\ info[i].functions = module_interfaces[info[i].module].functions

\* a retry request is about to be built for a module with a dependency whose
\* last attempt failed validation
C25_Witness ==
    /\ pc = "generate"
    /\ attempt = 1
    /\ Len(attempt_log) = 1
    /\ Len(next_module.dependencies) = 1
    /\ attempt_log[1].request.dependency_info[1].available
    /\ C22_Failed(next_module.dependencies[1])

\* C26: module creation is serial: in_progress_modules holds at most one
\* name; get_next_module is consulted only while it is empty; a module is
\* handed to the retry controller at most once, is the one in progress while
\* the controller runs, and every generation call is made inside the
\* controller, so the calls of one module are contiguous
C26_Serial ==
    HasState =>
        /\ Len(module_state.in_progress_modules) <= 1
        /\ pc = "loop" => module_state.in_progress_modules = <<>>
        /\ InRetryController =>
              /\ module_state.in_progress_modules = <<next_module.name>>
              /\ generation_order[Len(generation_order)] = next_module
        /\ attempt_log # <<>> => InRetryController
        /\ \A n \in ModuleNames : TimesGenerated(n) <= 1

\* the last retry of the second module, the first being completed
C26_Witness ==
    /\ pc = "generate"
    /\ attempt = max_retries
    /\ Len(generation_order) = 2
    /\ Len(module_state.completed_modules) = 1
    /\ module_state.in_progress_modules = <<next_module.name>>

\* C27: a text that does not parse yields the empty interface and no
\* exception; its validation yields exactly one issue, the missing main
\* class; the attempt counts as failed: it is retried while attempts remain
\* and returned when none remains, and the run is not ended
C27_ParseFailureAbsorbed ==
    /\ attempt_log # <<>> => (InRetryController /\ error = None /\ outcome = "none")
    /\ (InRetryController /\ attempt_log # <<>>
           /\ attempt_log[Len(attempt_log)].text = SyntaxErrorText) =>
          /\ pc = "validate" =>
                /\ module_result.interface = [classes |-> EmptyDict, functions |-> <<>>]
                /\ module_interfaces[next_module.name] = module_result.interface
          /\ pc # "validate" =>
                validation_issues = <<MainClassIssue(next_module.class_name)>>
          /\ pc = "generate" =>
                /\ attempt = Len(attempt_log)
                /\ attempt <= max_retries
                /\ previous_result.code = SyntaxErrorText
          /\ pc = "finish" => Len(attempt_log) = max_retries + 1

\* a text that does not parse is about to be retried, and one was returned
\* for a module before
C27_Witness ==
    /\ pc = "generate"
    /\ attempt = 1
    /\ attempt_log[1].text = SyntaxErrorText
    /\ \E n \in DOMAIN created_modules : created_modules[n].code = SyntaxErrorText

\* the planner's output was parsed and cleaned, and the architecture can be
\* scheduled to the end: no policy violation, no scheduling deadlock
C28_Started ==
    /\ pc = "create_modules"
    /\ NoUiName(architecture)
    /\ C2_Schedulable(architecture)

C28_Finished == pc = "assembled" /\ assembly_result # None

\* C28: a run of the flow whose planner output parsed, in which no policy
\* violation is raised and no scheduling deadlock occurs, and in which
\* every backend call returns, eventually finishes assemble_system and
\* returns a result, whatever the validation outcomes of the modules and of
\* the integration
C28_RunCompletes == C28_Started ~> C28_Finished

\* the assembly returned its result after a module and the integration both
\* failed validation on every attempt
C28_Witness ==
    /\ C28_Finished
    /\ NoUiName(architecture)
    /\ C2_Schedulable(architecture)
    /\ Len(architecture.modules) = 2
    /\ \E n \in DOMAIN created_modules : C22_Failed(n)
    /\ _validate_generated_code_quality(assembly_result.integration, FileIntegration,
                                        architecture) # <<>>

\* the first balanced block of a text: from its first opening brace to the
\* closing brace that matches it
C29_FirstBalancedBlock(text) ==
    LET opens == {i \in 1..Len(text) : text[i] = Open}
        first == CHOOSE i \in opens : \A k \in opens : i <= k
        Depth(j) == Cardinality({i \in first..j : text[i] = Open})
                        - Cardinality({i \in first..j : text[i] = Close})
        ends == {j \in first..Len(text) : Depth(j) = 0}
        matching == CHOOSE j \in ends : \A k \in ends : j <= k
    IN IF opens = {} THEN None
       ELSE IF ends = {} THEN None
       ELSE [group |-> SubSeq(text, first, matching)]

\* the block is the JSON object of an architecture
C29_Parseable(block) ==
    /\ block # None
    /\ json_loads(block.group).decoded
    /\ "modules" \in DOMAIN json_loads(block.group).value

\* C29: _parse_architecture_result parses the first balanced brace-delimited
\* block of the planner's text, also when the prose after that block holds
\* further braces: when that block is the JSON object of an architecture,
\* plan_architecture returns that architecture, cleaned; when there is no
\* parseable block the error leaves plan_architecture and the backend has
\* been called once
C29_FirstBlockParsed ==
    pc \in {"planned", "raised"} =>
        LET block == C29_FirstBalancedBlock(attempt_log[1].text.chars)
        IN /\ Len(attempt_log) = 1
           /\ IF C29_Parseable(block)
                  THEN /\ pc = "planned"
                       /\ error = None
                       /\ architecture =
                              _validate_and_clean_architecture(
                                  json_loads(block.group).value)
                  ELSE /\ pc = "raised"
                       /\ error # None

\* the generation calls _create_system_integration_with_retry has made
C30_Calls ==
    LET IsIntegration(e) ==
            e.by \in {"_create_system_integration", "_retry_integration_with_feedback"}
    IN SelectSeq(assembly_log, IsIntegration)

C30_Issues(text) == _validate_generated_code_quality(text, FileIntegration, architecture)

C30_Returned == pc \in {"tests", "demo", "readme", "validate_dependencies", "assembled"}

\* C30: _create_system_integration_with_retry calls the backend at most
\* twice; it returns the first attempt when that passes validation, and
\* otherwise makes exactly one retry, whose request holds the text of the
\* first attempt and its issues, and returns the text of the second attempt
\* whether or not it passes, without raising; system_integration.py holds
\* the text of the most recent attempt
C30_IntegrationRetry ==
    LET calls == C30_Calls
        first_issues == C30_Issues(calls[1].text)
    IN /\ Len(calls) <= 2
       /\ calls # <<>> =>
             /\ calls[1].by = "_create_system_integration"
             /\ calls[1].request = <<>>
             /\ files[FileIntegration] = calls[Len(calls)].text
             /\ integration_result = calls[Len(calls)].text
       /\ Len(calls) = 2 =>
             /\ first_issues # <<>>
             /\ calls[2].by = "_retry_integration_with_feedback"
             /\ calls[2].request = <<calls[1].text, first_issues>>
       /\ C30_Returned =>
             /\ error = None
             /\ Len(calls) = (IF first_issues = <<>> THEN 1 ELSE 2)
             /\ integration_result = calls[Len(calls)].text
       /\ pc = "assembled" => assembly_result.integration = integration_result

\* the retry failed validation as well and its text was returned
C30_Witness ==
    /\ pc = "tests"
    /\ Len(C30_Calls) = 2
    /\ C30_Issues(C30_Calls[2].text) # <<>>
    /\ integration_result = C30_Calls[2].text

-----------------------------------------------------------------------------
(* C31 - C39 *)

C31_Blank(chars) == \A i \in 1..Len(chars) : chars[i] \in Whitespace

\* the name the integration class must have: the characters of system_name
\* other than spaces and hyphens, followed by "Integration"
C31_ExpectedName(system_name) ==
    LET Kept(c) == c \notin {" ", "-"}
    IN SelectSeq(system_name, Kept) \o IntegrationSuffix

C31_LookupWithoutImport(chars) == Contains(chars, OsGetenv) /\ ~Contains(chars, ImportOs)

C31_ClassMissing(chars, system_name) ==
    ~Contains(chars, ClassKeyword \o C31_ExpectedName(system_name))

C32_FeedbackFresh ==
    /\ \A k \in 1..Len(attempt_log) :
          /\ attempt_log[k].request.module_spec = next_module
          /\ k = 1 =>
                /\ attempt_log[k].by = "_create_single_module"
                /\ attempt_log[k].request.feedback = <<>>
          /\ k > 1 =>
                /\ attempt_log[k].by = "_retry_module_with_feedback"
                /\ attempt_log[k].request.feedback =
                       <<attempt_log[k - 1].text,
                         IssuesOf(next_module, attempt_log[k - 1].text)>>
                /\ attempt_log[k].request.feedback[2] # <<>>
                /\ attempt_log[k].request.feedback[2] # UnboundIssues
    /\ (pc = "generate" /\ attempt > 0) =>
          /\ previous_result # Unbound
          /\ previous_result.code = attempt_log[attempt].text
          /\ validation_issues = IssuesOf(next_module, attempt_log[attempt].text)

\* the second retry was made after two attempts with different texts and
\* different issues
C32_Witness ==
    /\ Len(attempt_log) = 3
    /\ attempt_log[1].text # attempt_log[2].text
    /\ IssuesOf(next_module, attempt_log[1].text) # IssuesOf(next_module, attempt_log[2].text)
    /\ attempt_log[3].request.feedback[1] = attempt_log[2].text

\* the public functions and the classes defined at the top level of a source
C33_TopLevelFunctions(code) ==
    LET IsPublicFunction(n) == n.type = "FunctionDef" /\ ~IsPrivate(n.name)
        defs == SelectSeq(code.body, IsPublicFunction)
    IN [i \in 1..Len(defs) |-> Signature(defs[i].name, defs[i].args)]

C33_TopLevelClasses(code) ==
    {code.body[i].name : i \in {j \in 1..Len(code.body) : code.body[j].type = "ClassDef"}}

\* C33: for a source that parses, the extracted list of functions holds
\* exactly the public functions defined at the top level and the mapping of
\* classes exactly the top-level classes: a method of a class is not in the
\* list of functions
C33_TopLevelOnly ==
    (pc = "validate" /\ module_result.code.parses) =>
        /\ module_result.interface.functions = C33_TopLevelFunctions(module_result.code)
        /\ DOMAIN module_result.interface.classes = C33_TopLevelClasses(module_result.code)

\* the position in arch.modules of the module to create next when the names
\* in done are completed: the earliest of the eligible modules of least
\* priority; 0 when no module is eligible
C34_Next(arch, done) ==
    LET Eligible(i) == /\ arch.modules[i].name \notin done
                       /\ Range(arch.modules[i].dependencies) \subseteq done
        eligible == {i \in 1..Len(arch.modules) : Eligible(i)}
    IN IF eligible = {} THEN 0
       ELSE CHOOSE i \in eligible :
                \A j \in eligible :
                    \/ arch.modules[i].priority < arch.modules[j].priority
                    \/ /\ arch.modules[i].priority = arch.modules[j].priority
                       /\ i <= j

\* C34: among the eligible modules of least priority the one declared
\* first is created next, so the order in which create_modules creates the
\* modules is determined by the architecture alone: every module created is
\* the one C34_Next gives for the modules created before it, whatever the
\* backend returned and whatever the validations said, and the loop ends
\* only when C34_Next gives none
C34_OrderByArchitecture ==
    HasState =>
        /\ \A k \in 1..Len(generation_order) :
              LET done == {generation_order[j].name : j \in 1..(k - 1)}
                  i == C34_Next(architecture, done)
              IN /\ i # 0
                 /\ generation_order[k] = architecture.modules[i]
        /\ (pc = "modules_returned") => C34_Next(architecture, Generated) = 0

\* two modules of the same priority, both eligible from the start, were
\* created in the order of their declaration, the first failing validation
C34_Witness ==
    /\ pc = "modules_returned"
    /\ Len(architecture.modules) = 2
    /\ architecture.modules[1].priority = architecture.modules[2].priority
    /\ architecture.modules[1].dependencies = <<>>
    /\ architecture.modules[2].dependencies = <<>>
    /\ generation_order = architecture.modules
    /\ C22_Failed(architecture.modules[1].name)

\* the architecture is acyclic and no module has a smaller priority than one
\* of its dependencies
C35_Covered(arch) ==
    /\ \A n \in ModuleNamesOf(arch) : ~OnCycle(arch, n)
    /\ \A i, j \in 1..Len(arch.modules) :
          arch.modules[j].name \in Range(arch.modules[i].dependencies)
              => arch.modules[i].priority >= arch.modules[j].priority

\* C35: for an acyclic architecture in which the priority of every module is
\* at least the priority of each of its dependencies, the priorities of the
\* modules, in the order create_modules generates them, never decrease
C35_PriorityAscending ==
    (HasState /\ C35_Covered(architecture)) =>
        \A k \in 1..(Len(generation_order) - 1) :
            generation_order[k].priority <= generation_order[k + 1].priority

\* a module of priority 2 declared first and generated after the module of
\* priority 1 it depends on
C35_Witness ==
    /\ pc = "modules_returned"
    /\ C35_Covered(architecture)
    /\ Len(architecture.modules) = 2
    /\ architecture.modules[1].priority = 2
    /\ architecture.modules[1].dependencies = <<architecture.modules[2].name>>
    /\ generation_order = <<architecture.modules[2], architecture.modules[1]>>

\* the planner's architecture is acyclic over the names of its modules
C36_PlannedSchedulable ==
    /\ pc = "start"
    /\ UniqueNames(planner_result)
    /\ BlockedNames(planner_result) = {}

\* create_modules has returned with every module of the cleaned architecture
\* generated and completed
C36_AllRemainingCompleted ==
    /\ pc = "modules_returned"
    /\ ModuleNamesOf(architecture) \subseteq Generated
    /\ ModuleNamesOf(architecture) \subseteq Completed

\* C36: when the planned architecture is acyclic over existing module names,
\* then once _validate_and_clean_architecture has removed the modules with
\* forbidden names, every remaining module is eventually generated and
\* completed by create_modules
C36_CleaningKeepsSchedulable == C36_PlannedSchedulable ~> C36_AllRemainingCompleted

\* C37: in every state reached by the transition operations, also with
\* duplicate module names and with mark_module_completed called with a name
\* that is not in the architecture, is_system_complete() is true exactly when
\* every module name of the architecture is in completed_modules
C37_CompleteIffAllCompleted ==
    pc = "state" =>
        (is_system_complete(module_state)
            <=> ModuleNamesOf(architecture) \subseteq Range(module_state.completed_modules))

\* the main class of the generated source defines every required method
C38_DefinesAllRequired ==
    \E k \in 1..Len(module_result.code.body) :
        LET node == module_result.code.body[k]
        IN /\ node.type = "ClassDef"
           /\ node.name = next_module.class_name
           /\ Range(next_module.interfaces)
                  \subseteq {node.body[i].name : i \in 1..Len(node.body)}

\* C38: every required interface name can be satisfied: a source whose main
\* class defines each name of module_spec.interfaces, names beginning with an
\* underscore such as __init__ included, passes validation
C38_RequiredNameSatisfiable ==
    (pc = "contract_checked" /\ C38_DefinesAllRequired) => validation_issues = <<>>

\* create_modules was left by the error of a generation call for next_module
C39_BackendFailed == pc = "raised" /\ error.type = "BackendError"

\* C39: when a generation call for module M raises, on any attempt, the error
\* leaves create_modules, M is in in_progress_modules and not in
\* completed_modules, no module that depends on M has been started, and every
\* module created before M is still completed with the registry entry that its
\* returned result carries
C39_FailureLeavesConsistentState ==
    C39_BackendFailed =>
        /\ outcome = "raised"
        /\ next_module.name \in InProgress
        /\ next_module.name \notin Completed
        /\ \A i \in 1..Len(architecture.modules) :
               next_module.name \in Range(architecture.modules[i].dependencies)
                   => architecture.modules[i] \notin Range(generation_order)
        /\ \A n \in DOMAIN created_modules :
               /\ n \in Completed
               /\ n \in DOMAIN module_interfaces
               /\ module_interfaces[n] = created_modules[n].interface
               /\ files[n] = created_modules[n].code
        /\ Completed \cap Generated = DOMAIN created_modules

\* the backend fails on a retry of the second module, which depends on the
\* first; the first module is completed and the second has a registry entry
\* from its earlier attempt
C39_Witness ==
    /\ C39_BackendFailed
    /\ attempt > 0
    /\ Len(generation_order) = 2
    /\ next_module.dependencies = <<generation_order[1].name>>
    /\ generation_order[1].name \in Completed
    /\ next_module.name \in DOMAIN module_interfaces

====
